---- MODULE Spec2Model ----
(***************************************************************************)
(* MVideoDK browser extension, download relay.                             *)
(*                                                                         *)
(* Model of the three contexts of                                          *)
(* 2_Installer_Resources/ProgramData/MVideoDK/Extension/popup.js:          *)
(*  - the background coordinator: the configuration loader (loadConfig /   *)
(*    getServerInfo), the submission client (sendDownload / notify) and    *)
(*    the message router (the chrome.runtime.onMessage listener);          *)
(*  - the popup: its opening sequence, status line, mode switch, overlay   *)
(*    toggle, download buttons and link buttons;                           *)
(*  - the content script: the overlay button, the tracked URL, the startup *)
(*    read of the stored flag and the SET_FLOAT_BUTTON listener.           *)
(* They share chrome.storage.local and the runtime / tab message channels. *)
(* Each specification runs one or two contexts and holds the variables of  *)
(* the others constant.                                                    *)
(*                                                                         *)
(* JavaScript strings the code inspects character by character (URLs,      *)
(* path prefixes) are sequences of one-character strings; values the code  *)
(* only tests for truthiness or copies are TLA+ strings.  The JavaScript   *)
(* value undefined is the string "undefined" where a field may be absent.  *)
(*                                                                         *)
(* One step of the model is one run-to-completion turn of the background   *)
(* event loop: a message dispatch, or the settling of one awaited network  *)
(* promise together with the continuations it makes runnable.  A           *)
(* continuation that is already runnable when a turn ends (an await on a   *)
(* resolved promise) is a microtask: it runs before any other turn.        *)
(***************************************************************************)
EXTENDS Integers, Sequences, FiniteSets, TLC

(* ------------------------------ bounds --------------------------------- *)

\* number of messages delivered to the background listener in one run
MaxMsgs == 2

MsgIds == 1..MaxMsgs

\* number of clicks on the popup's toggle, download and link buttons in one run
MaxActs == 2

\* number of clicks on the overlay button in one page
MaxClicks == 2

\* number of SET_FLOAT_BUTTON messages on their way to the page at once
MaxInbox == 1

(* ------------------------------ strings -------------------------------- *)

EmptyStr == << >>
NotAUrl == <<"n", "o", "t", "-", "a", "-", "u", "r", "l">>
HttpUrl == <<"h", "t", "t", "p", ":", "/", "/", "a">>
HttpsUrl == <<"h", "t", "t", "p", "s", ":", "/", "/", "t">>
SrvUrlSlash == <<"h", "t", "t", "p", ":", "/", "/", "s", "/">>
XTestUrl == <<"h", "t", "t", "p", "s", ":", "/", "/", "x">>
XSlashUrl == <<"h", "t", "t", "p", "s", ":", "/", "/", "x", "/", "/">>
ApiPath == <<"/", "a", "p", "i">>
V2Path == <<"/", "v", "2">>
ExtConfigPath == <<"/", "a", "p", "i", "/", "e", "x", "t", "/", "c", "o", "n", "f", "i", "g">>
QueuePath == <<"/", "q", "u", "e", "u", "e">>

\* String.prototype.startsWith, the anchored part of a regular expression
StartsWith(s, p) == Len(s) >= Len(p) /\ SubSeq(s, 1, Len(p)) = p

\* one trailing slash dropped, not every one
StripTrailingSlashes_One(s) ==
    IF s # << >> /\ s[Len(s)] = "/" THEN SubSeq(s, 1, Len(s) - 1) ELSE s

\* s.replace(/\/+$/, ""): drop every trailing slash
RECURSIVE StripTrailingSlashes(_)
StripTrailingSlashes(s) ==
    IF s # << >> /\ s[Len(s)] = "/"
    THEN StripTrailingSlashes(SubSeq(s, 1, Len(s) - 1))
    ELSE s

\* /^https?:\/\//.test(u)
IsHttpUrl(u) ==
    \/ StartsWith(u, <<"h", "t", "t", "p", ":", "/", "/">>)
    \/ StartsWith(u, <<"h", "t", "t", "p", "s", ":", "/", "/">>)

\* the mode word sent as it is
ToUpperCase_Identity(w) == w

\* String.prototype.toUpperCase on the mode words
ToUpperCase(w) ==
    CASE w = "video" -> "VIDEO"
      [] w = "playlist" -> "PLAYLIST"
      [] OTHER -> w

\* a || b on JavaScript strings held as TLA+ strings
OrElse(a, b) == IF a = "undefined" \/ a = "" THEN b ELSE a

(* ------------------------- environment values -------------------------- *)

Null == [isNull |-> TRUE]

\* contents config_ext.json can have (server_url, api_prefix, token)
BundledConfigs ==
    { [server_url |-> SrvUrlSlash, api_prefix |-> V2Path, token |-> "t0"],
      [server_url |-> EmptyStr, api_prefix |-> EmptyStr, token |-> ""] }

\* JSON bodies the override endpoint can answer with; hasUrl / hasToken tell
\* whether the field is in the body at all
OverrideBodies ==
    { [hasUrl |-> FALSE, server_url |-> EmptyStr, hasToken |-> FALSE, token |-> ""],
      [hasUrl |-> TRUE, server_url |-> XTestUrl, hasToken |-> TRUE, token |-> "abc"],
      [hasUrl |-> TRUE, server_url |-> XSlashUrl, hasToken |-> FALSE, token |-> ""],
      [hasUrl |-> TRUE, server_url |-> EmptyStr, hasToken |-> TRUE, token |-> "abc"] }

NoBody == [hasUrl |-> FALSE, server_url |-> EmptyStr, hasToken |-> FALSE, token |-> ""]

\* what the queue endpoint can answer: a transport failure, or a response
\* with res.ok, res.statusText and a body (parsed: FALSE when res.json()
\* throws; detail / message are "undefined" when the field is absent)
NetError == [kind |-> "neterror", ok |-> FALSE, statusText |-> "", parsed |-> FALSE,
             detail |-> "undefined", message |-> "undefined"]

HttpAnswers ==
    { [kind |-> "http", ok |-> TRUE, statusText |-> "OK", parsed |-> TRUE,
       detail |-> "undefined", message |-> "undefined"],
      [kind |-> "http", ok |-> FALSE, statusText |-> "Forbidden", parsed |-> TRUE,
       detail |-> "bad token", message |-> "undefined"],
      [kind |-> "http", ok |-> FALSE, statusText |-> "Forbidden", parsed |-> TRUE,
       detail |-> "", message |-> "queue full"],
      [kind |-> "http", ok |-> FALSE, statusText |-> "", parsed |-> FALSE,
       detail |-> "undefined", message |-> "undefined"] }

NoAnswer == [kind |-> "none", ok |-> FALSE, statusText |-> "", parsed |-> FALSE,
             detail |-> "undefined", message |-> "undefined"]

\* messages the runtime can deliver to the background listener
MsgTypes == {"DIRECT_DOWNLOAD", "SET_FLOAT_BUTTON"}
MsgUrls == {EmptyStr, NotAUrl, HttpUrl}
SenderTabUrls == {EmptyStr, HttpsUrl}
FromFloatValues == {"true", "false", "1"}
ModoValues == {"undefined", "playlist"}

Messages ==
    [type : {"DIRECT_DOWNLOAD"}, url : MsgUrls, modo : ModoValues,
     fromFloat : FromFloatValues, tabUrl : SenderTabUrls]
    \cup
    [type : {"SET_FLOAT_BUTTON"}, url : {EmptyStr}, modo : {"undefined"},
     fromFloat : {"false"}, tabUrl : {HttpsUrl}]

NoMsg == [type |-> "none", url |-> EmptyStr, modo |-> "undefined",
          fromFloat |-> "false", tabUrl |-> EmptyStr]

(* --------------------- message router: decisions ----------------------- *)

\* a truthiness test in place of the strict comparison
FromFloat_Truthy(msg) == msg.fromFloat \notin {"false", "undefined", ""}

\* const fromFloat = msg.fromFloat === true
FromFloat(msg) == msg.fromFloat = "true"

\* the sender's page URL left out of the fallback chain
FinalUrl_ExplicitOnly(msg) == msg.url

\* const finalUrl = msg.url || (sender.tab && sender.tab.url) || ""
FinalUrl(msg) == IF msg.url # EmptyStr THEN msg.url ELSE msg.tabUrl

\* the listener taking every message for a download request
RouterVerdict_AnyType(msg) ==
    IF FinalUrl(msg) = EmptyStr THEN "no-url"
    ELSE IF ~FromFloat(msg) /\ ~IsHttpUrl(FinalUrl(msg)) THEN "invalid"
    ELSE "accept"

\* the branch the listener takes for a message
RouterVerdict(msg) ==
    IF msg.type # "DIRECT_DOWNLOAD" THEN "ignored"
    ELSE IF FinalUrl(msg) = EmptyStr THEN "no-url"
    ELSE IF ~FromFloat(msg) /\ ~IsHttpUrl(FinalUrl(msg)) THEN "invalid"
    ELSE "accept"

NoUrlResponse == [ok |-> FALSE, error |-> "no-url"]
\* the code's text is "URL inv\'alida", written here without the accent
InvalidUrlResponse == [ok |-> FALSE, error |-> "URL invalida"]
OkResponse == [ok |-> TRUE, error |-> "undefined"]

\* the accepted branch answering before the submission is awaited
SyncReply_Eager(verdict) ==
    CASE verdict = "no-url" -> <<NoUrlResponse>>
      [] verdict = "invalid" -> <<InvalidUrlResponse>>
      [] verdict = "accept" -> <<OkResponse>>
      [] OTHER -> << >>

\* what the listener passes to sendResponse before it returns
SyncReply(verdict) ==
    CASE verdict = "no-url" -> <<NoUrlResponse>>
      [] verdict = "invalid" -> <<InvalidUrlResponse>>
      [] OTHER -> << >>

\* the listener's return value: true keeps the reply channel open
HandlerReturn(verdict) == IF verdict = "accept" THEN "true" ELSE "undefined"

\* the async function ending without a call of sendResponse
CompletionReply_None(result) == << >>

\* sendResponse && sendResponse({ ok: true }) once sendDownload has settled
CompletionReply(result) == <<OkResponse>>

(* ---------------------- configuration: decisions ----------------------- *)

\* getServerInfo: base, apiPrefix and token read from the loaded config
ServerInfo(cfg) ==
    [base |-> StripTrailingSlashes(cfg.server_url),
     apiPrefix |-> IF cfg.api_prefix = EmptyStr THEN ApiPath ELSE cfg.api_prefix,
     token |-> cfg.token]

\* the URL loadConfig requests the dynamic configuration from
OverrideUrl(cfg) == StripTrailingSlashes(cfg.server_url) \o ExtConfigPath

\* if (srv.server_url) CFG.server_url = ...; if (srv.token) CFG.token = ...
ApplyOverride(cfg, srv) ==
    [server_url |-> IF srv.hasUrl /\ srv.server_url # EmptyStr
                    THEN srv.server_url ELSE cfg.server_url,
     api_prefix |-> cfg.api_prefix,
     token |-> IF srv.hasToken /\ srv.token # "" THEN srv.token ELSE cfg.token]

(* -------------------- submission client: decisions --------------------- *)

\* if (!base || !token)
Misconfigured(info) == info.base = EmptyStr \/ info.token = ""

\* the fetch(endpoint, {method: "POST", headers, body}) sendDownload issues
QueueRequest(info, url, modo) ==
    [method |-> "POST",
     endpoint |-> info.base \o info.apiPrefix \o QueuePath,
     authorization |-> <<"Bearer", info.token>>,
     body |-> [url |-> url, source |-> "EXT",
               mode |-> ToUpperCase(OrElse(modo, "video"))]]

\* the request issued a second time
Fetch_Twice(issued, request) == Append(Append(issued, request), request)

\* await fetch(endpoint, {...}): the one request of a sendDownload call
Fetch(issued, request) == Append(issued, request)

\* (data && (data.detail || data.message)) || res.statusText || "Error HTTP"
RejectDetail(ans) ==
    LET fromBody == IF ans.parsed
                    THEN OrElse(ans.detail, OrElse(ans.message, ""))
                    ELSE ""
    IN OrElse(fromBody, OrElse(ans.statusText, "Error HTTP"))

MisconfiguredNote == [title |-> "Error", message |-> "Falta configuracion de servidor o token."]
UnreachableNote == [title |-> "Error de conexion",
                    message |-> "No se pudo contactar con el servidor MVideoDk."]
QueuedNote == [title |-> "MVideoDk", message |-> "Descarga en cola desde la extension."]

\* the notification sendDownload raises for an answer of the queue endpoint
AnswerNote(ans) ==
    IF ans.kind = "neterror" THEN UnreachableNote
    ELSE IF ~ans.ok THEN [title |-> "Error al enviar URL", message |-> RejectDetail(ans)]
    ELSE QueuedNote

\* the branch of sendDownload an answer of the queue endpoint leads to
AnswerPath(ans) ==
    IF ans.kind = "neterror" THEN "unreachable"
    ELSE IF ~ans.ok THEN "rejected"
    ELSE "queued"

\* notify creating nothing
Notify_Silent(list, note) == list

\* notify(title, message): chrome.notifications.create({title, message}),
\* with chrome.notifications present
Notify(list, note) == Append(list, note)

\* a SubmissionOutcome {ok, errorKind, detail}, and the JavaScript undefined
Outcome(ok, errorKind, detail) ==
    [defined |-> TRUE, ok |-> ok, errorKind |-> errorKind, detail |-> detail]

JsUndefined == [defined |-> FALSE, ok |-> FALSE, errorKind |-> "", detail |-> ""]

\* the value sendDownload's promise resolves with on each of its paths
\* ("misconfigured", "rejected", "queued", "unreachable"): every path ends in
\* a bare return or falls off the end of the function
SendDownloadValue(path) == JsUndefined

(* ------------------------------- state --------------------------------- *)

VARIABLES
    bundled,          \* content of config_ext.json in the installed package
    CFG,              \* the background's cached configuration (let CFG = null)
    delivered,        \* number of messages dispatched to the listener so far
    lastMsg,          \* the message dispatched last, with its sender's tab URL
    msgType,          \* msgType[m]: the type field of the m-th message
    pc,               \* pc[m]: where the handling of message m stands
    handlerRet,       \* handlerRet[m]: what the listener returned for m
    responses,        \* responses[m]: the values passed to m's sendResponse
    shown,            \* shown[m]: the notifications raised while handling m
    sdArgs,           \* sdArgs[m]: the arguments of m's sendDownload call
    sdResult,         \* sdResult[m]: state and value of m's sendDownload promise
    cfgCall,          \* cfgCall[m]: m's loadConfig call and what it returned
    bundledFetches,   \* fetches of config_ext.json issued so far
    overrideFetches,  \* fetches of the override endpoint issued so far
    posts,            \* posts[m]: the queue requests issued for m
    postAnswer        \* postAnswer[m]: what the queue endpoint answered to m

\* the background context and the installed package
bgVars == <<bundled, CFG, delivered, lastMsg, msgType, pc, handlerRet, responses, shown,
            sdArgs, sdResult, cfgCall, bundledFetches, overrideFetches, posts,
            postAnswer>>

VARIABLES
    store,            \* chrome.storage.local: the value under MvideoDk_float_button
    storeQueue,       \* chrome.storage.local.set calls issued and not yet completed
    written,          \* the values whose chrome.storage.local.set has completed
    activeTab,        \* what chrome.tabs.query({active, currentWindow}) answers
    tabInbox          \* SET_FLOAT_BUTTON messages sent to the active tab

\* the browser services the contexts share
envVars == <<store, storeQueue, written, activeTab, tabInbox>>

VARIABLES
    CONFIG,             \* the popup's cached configuration (let CONFIG = null)
    currentMode,        \* the popup's Mode
    popupFloatEnabled,  \* the popup's floatEnabled
    urlInput,           \* urlInput.value, the free-text URL field
    serverUrlInput,     \* serverUrlInput.value, the displayed server URL
    baseStatus,         \* baseStatusText and baseStatusColor
    status,             \* text and colour of the status line
    tempStatusTimer,    \* tempStatusTimer: "null", "pending" or "fired"
    timeouts,           \* revert timeouts set and neither cleared nor fired
    disabled,           \* disabled[b]: the disabled property of download button b
    popupPc,            \* where the DOMContentLoaded handler stands
    acts,               \* acts[i]: the handler run started by the i-th click
    popupUrls           \* the URLs the popup has requested or opened

popupVars == <<CONFIG, currentMode, popupFloatEnabled, urlInput, serverUrlInput,
               baseStatus, status, tempStatusTimer, timeouts, disabled, popupPc, acts,
                   popupUrls>>

VARIABLES
    pagePc,            \* where the content script of the active tab's page stands
    hasBody,           \* whether document.body exists
    btn,               \* the content script's btn: Null or the overlay button
    attached,          \* number of overlay buttons in the document
    pageFloatEnabled,  \* the content script's floatEnabled
    location,          \* window.location.href
    currentUrl,        \* the content script's currentUrl
    readValue,         \* what the pending chrome.storage.local.get has read
    wroteSinceStart,   \* whether the flag was written during the script's startup
    clicks             \* clicks[i]: the i-th click on the overlay button

pageVars == <<pagePc, hasBody, btn, attached, pageFloatEnabled, location, currentUrl, readValue,
              wroteSinceStart, clicks>>

vars == <<bgVars, envVars, popupVars, pageVars>>

NoArgs == [url |-> EmptyStr, modo |-> "undefined"]
NotCalled == [state |-> "notcalled", value |-> JsUndefined]
Running == [state |-> "running", value |-> JsUndefined]
Threw == [state |-> "threw", value |-> JsUndefined]
Returned(v) == [state |-> "returned", value |-> v]

\* a loadConfig call: fetched tells whether it read config_ext.json itself,
\* asked the URL it requested the override from, override how that request
\* ended, body the override it received, result the configuration it returned
NoCall == [state |-> "none", fetched |-> FALSE, asked |-> EmptyStr,
           override |-> "none", body |-> NoBody, result |-> Null]

\* chrome.storage.local before the key is ever written, and the values
\* setFloatEnabled stores (!!enabled)
StoredValues == {"absent", "true", "false"}

\* the answer of chrome.tabs.query: no tab, a tab whose url the extension
\* may not see, a tab on a page
NoTab == [exists |-> FALSE, url |-> EmptyStr]
ActiveTabs == {NoTab, [exists |-> TRUE, url |-> EmptyStr],
               [exists |-> TRUE, url |-> HttpsUrl]}

\* the three download buttons of the popup
Buttons == {"download", "current", "playlist"}

NoStatus == [text |-> "", ok |-> TRUE]

\* the browser services before any context has used them
EnvInit ==
    /\ store = "absent"
    /\ storeQueue = << >>
    /\ written = {}
    /\ activeTab = NoTab
    /\ tabInbox = << >>

\* the popup is not open: module-level variables at their initial values, an
\* empty form, no handler running
PopupClosed ==
    /\ CONFIG = Null
    /\ currentMode = "video"
    /\ popupFloatEnabled = FALSE
    /\ urlInput = EmptyStr
    /\ serverUrlInput = EmptyStr
    /\ baseStatus = NoStatus
    /\ status = NoStatus
    /\ tempStatusTimer = "null"
    /\ timeouts = 0
    /\ disabled = [b \in Buttons |-> FALSE]
    /\ popupPc = "closed"
    /\ acts = << >>
    /\ popupUrls = {}

\* no page has loaded the content script
NoPage ==
    /\ pagePc = "none"
    /\ hasBody = FALSE
    /\ btn = Null
    /\ attached = 0
    /\ pageFloatEnabled = FALSE
    /\ location = EmptyStr
    /\ currentUrl = EmptyStr
    /\ readValue = "none"
    /\ wroteSinceStart = FALSE
    /\ clicks = << >>

Init ==
    /\ bundled \in BundledConfigs
    /\ CFG = Null
    /\ delivered = 0
    /\ lastMsg = NoMsg
    /\ msgType = [m \in MsgIds |-> "none"]
    /\ pc = [m \in MsgIds |-> "idle"]
    /\ handlerRet = [m \in MsgIds |-> "none"]
    /\ responses = [m \in MsgIds |-> << >>]
    /\ shown = [m \in MsgIds |-> << >>]
    /\ sdArgs = [m \in MsgIds |-> NoArgs]
    /\ sdResult = [m \in MsgIds |-> NotCalled]
    /\ cfgCall = [m \in MsgIds |-> NoCall]
    /\ bundledFetches = 0
    /\ overrideFetches = 0
    /\ posts = [m \in MsgIds |-> << >>]
    /\ postAnswer = [m \in MsgIds |-> NoAnswer]
    /\ EnvInit
    /\ PopupClosed
    /\ NoPage

\* no continuation is waiting in the microtask queue
NoMicrotask == \A m \in MsgIds : pc[m] # "cfgResolved"

(* ------------------------------ actions -------------------------------- *)

\* chrome.runtime.onMessage listener, up to its return.  For an accepted
\* message the async function starts and runs, through sendDownload and
\* getServerInfo, to loadConfig's first await.  `seen` is what the history
\* variable lastMsg records of the message; no action reads lastMsg.
RouterHandler(m, msg, seen) ==
    LET verdict == RouterVerdict(msg) IN
    /\ NoMicrotask
    /\ pc[m] = "idle"
    /\ m = delivered + 1
    /\ delivered' = m
    /\ lastMsg' = seen
    /\ msgType' = [msgType EXCEPT ![m] = msg.type]
    /\ handlerRet' = [handlerRet EXCEPT ![m] = HandlerReturn(verdict)]
    /\ responses' = [responses EXCEPT ![m] = SyncReply(verdict)]
    /\ IF verdict = "accept"
       THEN /\ sdArgs' = [sdArgs EXCEPT
                   ![m] = [url |-> FinalUrl(msg), modo |-> OrElse(msg.modo, "video")]]
            /\ sdResult' = [sdResult EXCEPT ![m] = Running]
            /\ IF CFG # Null
               THEN \* if (CFG) return CFG
                    /\ cfgCall' = [cfgCall EXCEPT
                           ![m] = [NoCall EXCEPT !.state = "returned", !.result = CFG]]
                    /\ pc' = [pc EXCEPT ![m] = "cfgResolved"]
                    /\ UNCHANGED bundledFetches
               ELSE \* await fetch(chrome.runtime.getURL("config_ext.json"))
                    /\ cfgCall' = [cfgCall EXCEPT
                           ![m] = [NoCall EXCEPT !.state = "running", !.fetched = TRUE]]
                    /\ pc' = [pc EXCEPT ![m] = "readLocal"]
                    /\ bundledFetches' = bundledFetches + 1
       ELSE /\ pc' = [pc EXCEPT ![m] = "done"]
            /\ UNCHANGED <<sdArgs, sdResult, cfgCall, bundledFetches>>
    /\ UNCHANGED <<bundled, CFG, shown, overrideFetches, posts, postAnswer>>
    /\ UNCHANGED <<envVars, popupVars, pageVars>>

\* the read of config_ext.json settles: resLocal = await fetch(urlLocal) and
\* CFG = await resLocal.json().  Nothing is assigned between the two awaits,
\* so they are one step.  When either throws, loadConfig throws, and the
\* rejection passes through getServerInfo, sendDownload and the listener's
\* async function, which has no handler for it.  Otherwise the override
\* request is issued.
LocalReadSettle(m, how) ==
    /\ NoMicrotask
    /\ pc[m] = "readLocal"
    /\ IF how = "ok"
       THEN /\ CFG' = bundled
            /\ overrideFetches' = overrideFetches + 1
            /\ cfgCall' = [cfgCall EXCEPT ![m].asked = OverrideUrl(CFG')]
            /\ pc' = [pc EXCEPT ![m] = "readOverride"]
            /\ UNCHANGED sdResult
       ELSE /\ cfgCall' = [cfgCall EXCEPT ![m].state = "threw"]
            /\ sdResult' = [sdResult EXCEPT ![m] = Threw]
            /\ pc' = [pc EXCEPT ![m] = "crashed"]
            /\ UNCHANGED <<CFG, overrideFetches>>
    /\ UNCHANGED <<bundled, delivered, lastMsg, msgType, handlerRet, responses, shown,
                   sdArgs, bundledFetches, posts, postAnswer>>
    /\ UNCHANGED <<envVars, popupVars, pageVars>>

\* the override request settles: res = await fetch(extConfigUrl) and, when
\* res.ok, srv = await res.json().  A transport error ("neterror"), a
\* non-success status ("status") and an unreadable body ("malformed") leave
\* CFG alone; a body is applied to CFG.  loadConfig then returns CFG.
OverrideSettle(m, how, srv) ==
    /\ NoMicrotask
    /\ pc[m] = "readOverride"
    /\ CFG' = IF how = "ok" THEN ApplyOverride(CFG, srv) ELSE CFG
    /\ cfgCall' = [cfgCall EXCEPT ![m].state = "returned", ![m].override = how,
                                  ![m].body = srv, ![m].result = CFG']
    /\ pc' = [pc EXCEPT ![m] = "cfgResolved"]
    /\ UNCHANGED <<bundled, delivered, lastMsg, msgType, handlerRet, responses, shown,
                   sdArgs, sdResult, bundledFetches, overrideFetches, posts,
                   postAnswer>>
    /\ UNCHANGED <<envVars, popupVars, pageVars>>

\* sendDownload returns on `path`, and the listener's async function resumes
\* after await sendDownload(...) and answers the sender
SendDownloadReturns(m, path, note) ==
    /\ shown' = [shown EXCEPT ![m] = Notify(@, note)]
    /\ sdResult' = [sdResult EXCEPT ![m] = Returned(SendDownloadValue(path))]
    /\ responses' = [responses EXCEPT
           ![m] = @ \o CompletionReply(SendDownloadValue(path))]
    /\ pc' = [pc EXCEPT ![m] = "done"]

\* getServerInfo and sendDownload resume once loadConfig has returned
SendDownloadStart(m) ==
    LET info == ServerInfo(CFG) IN
    /\ pc[m] = "cfgResolved"
    /\ IF Misconfigured(info)
       THEN /\ SendDownloadReturns(m, "misconfigured", MisconfiguredNote)
            /\ UNCHANGED posts
       ELSE /\ posts' = [posts EXCEPT
                   ![m] = Fetch(@, QueueRequest(info, sdArgs[m].url, sdArgs[m].modo))]
            /\ pc' = [pc EXCEPT ![m] = "posting"]
            /\ UNCHANGED <<shown, sdResult, responses>>
    /\ UNCHANGED <<bundled, CFG, delivered, lastMsg, msgType, handlerRet, sdArgs, cfgCall,
                   bundledFetches, overrideFetches, postAnswer>>
    /\ UNCHANGED <<envVars, popupVars, pageVars>>

\* the queue request settles: res = await fetch(endpoint, ...) rejects, or
\* resolves and data = await res.json() has been tried; the answer is
\* classified, notified, and sendDownload returns
PostSettle(m, ans) ==
    /\ NoMicrotask
    /\ pc[m] = "posting"
    /\ postAnswer' = [postAnswer EXCEPT ![m] = ans]
    /\ SendDownloadReturns(m, AnswerPath(ans), AnswerNote(ans))
    /\ UNCHANGED <<bundled, CFG, delivered, lastMsg, msgType, handlerRet, sdArgs, cfgCall,
                   bundledFetches, overrideFetches, posts>>
    /\ UNCHANGED <<envVars, popupVars, pageVars>>

Next ==
    \/ \E m \in MsgIds, msg \in Messages : RouterHandler(m, msg, msg)
    \/ \E m \in MsgIds, how \in {"ok", "unreadable", "badjson"} : LocalReadSettle(m, how)
    \/ \E m \in MsgIds, how \in {"neterror", "status", "malformed"} :
           OverrideSettle(m, how, NoBody)
    \/ \E m \in MsgIds, srv \in OverrideBodies : OverrideSettle(m, "ok", srv)
    \/ \E m \in MsgIds : SendDownloadStart(m)
    \/ \E m \in MsgIds, ans \in {NetError} \cup HttpAnswers : PostSettle(m, ans)

Spec == Init /\ [][Next]_vars

\* the steps of message m the event loop takes once their promise has settled
Progress(m) ==
    \/ \E how \in {"ok", "unreadable", "badjson"} : LocalReadSettle(m, how)
    \/ \E how \in {"neterror", "status", "malformed"} : OverrideSettle(m, how, NoBody)
    \/ \E srv \in OverrideBodies : OverrideSettle(m, "ok", srv)
    \/ SendDownloadStart(m)
    \/ \E ans \in {NetError} \cup HttpAnswers : PostSettle(m, ans)

\* The same program with lastMsg not recorded, and with the scheduling the
\* platform gives: every network call eventually settles and every runnable
\* continuation runs.  Message arrival is left to the senders.
FairNext ==
    \/ \E m \in MsgIds, msg \in Messages : RouterHandler(m, msg, NoMsg)
    \/ \E m \in MsgIds : Progress(m)

FairSpec == Init /\ [][FairNext]_vars /\ \A m \in MsgIds : WF_vars(Progress(m))

(* ------------------------- popup: decisions ---------------------------- *)

ExtQueuePath == <<"/", "e", "x", "t", "/", "q", "u", "e", "u", "e">>
ExtOpenDownloadsPath == <<"/", "e", "x", "t", "/", "o", "p", "e", "n", "_",
                          "d", "o", "w", "n", "l", "o", "a", "d", "s">>
PingPath == <<"/", "p", "i", "n", "g">>
\* the text "ERROR: config_ext.json" of the server URL field, abridged
ConfigErrorText == <<"E", "R", "R", "O", "R">>
BlankText == <<" ">>
PaddedUrl == <<" ", "h", "t", "t", "p", ":", "/", "/", "a", " ">>

\* what the user can type into the free-text URL field
EnteredTexts == {EmptyStr, BlankText, PaddedUrl}

\* String.prototype.trim, for the blank the model's texts contain
RECURSIVE Trim(_)
Trim(s) ==
    IF s # << >> /\ s[1] = " " THEN Trim(Tail(s))
    ELSE IF s # << >> /\ s[Len(s)] = " " THEN Trim(SubSeq(s, 1, Len(s) - 1))
    ELSE s

\* testServer: `${base}${apiPrefix}/ping`
PingUrl(cfg) ==
    StripTrailingSlashes(cfg.server_url)
        \o (IF cfg.api_prefix = EmptyStr THEN ApiPath ELSE cfg.api_prefix) \o PingPath

\* viewQueueBtn / openDownloadsBtn: `${base}/ext/queue`, `${base}/ext/open_downloads`
LinkUrl(cfg, kind) ==
    StripTrailingSlashes(cfg.server_url)
        \o (IF kind = "viewQueue" THEN ExtQueuePath ELSE ExtOpenDownloadsPath)

\* the status texts, named by what they say
ConfigErrorStatus == [text |-> "No se pudo leer config_ext.json", ok |-> FALSE]
ConnectedStatus == [text |-> "Conectado a MVideoDk.", ok |-> TRUE]
DisconnectedStatus == [text |-> "No se pudo conectar. Abre la app MVideoDk.", ok |-> FALSE]
NoUrlStatus == [text |-> "No se encontro una URL valida.", ok |-> FALSE]
NoActiveUrlStatus == [text |-> "No se encontro URL activa.", ok |-> FALSE]

\* the temporary status a download button shows when its send callback runs
SentStatus(b) ==
    CASE b = "download" -> [text |-> "Solicitud enviada. Revisa la app MVideoDk.", ok |-> TRUE]
      [] b = "current" -> [text |-> "Video en cola (si el servidor esta activo).", ok |-> TRUE]
      [] b = "playlist" -> [text |-> "Playlist en cola (si el servidor esta activo).", ok |-> TRUE]

\* setBaseStatus(text, ok)
SetBaseStatus(st) ==
    /\ baseStatus' = st
    /\ status' = st

\* showTempStatus setting its timeout without clearing the one before
ShowTempStatus_NoClear(st) ==
    /\ status' = st
    /\ tempStatusTimer' = "pending"
    /\ timeouts' = timeouts + 1

\* showTempStatus(msg, ok): clearTimeout(tempStatusTimer) when it holds a
\* handle, which cancels that timeout unless it has fired; the message is
\* shown and a new timeout is set
ShowTempStatus(st) ==
    /\ status' = st
    /\ tempStatusTimer' = "pending"
    /\ timeouts' = (IF tempStatusTimer = "pending" THEN timeouts - 1 ELSE timeouts) + 1

\* const STORAGE_MODE / STORAGE_FLOAT: the storage keys the file names
STORAGE_MODE == "MvideoDk_mode"
STORAGE_FLOAT == "MvideoDk_float_button"

\* the flag stored under the key the file names for the Mode
SetFloatEnabled_ModeKey(enabled) ==
    [key |-> STORAGE_MODE, value |-> IF enabled THEN "true" ELSE "false"]

\* setFloatEnabled: the object passed to chrome.storage.local.set,
\* { [STORAGE_FLOAT]: !!enabled }
SetFloatEnabled(enabled) ==
    [key |-> STORAGE_FLOAT, value |-> IF enabled THEN "true" ELSE "false"]

\* anything but a stored false taken for enabled
StoredTrue_NotFalse(v) == v # "false"

\* items[STORAGE_FLOAT] === true
StoredTrue(v) == v = "true"

\* a handler run of the popup started by a click
Act(kind) == [kind |-> kind, pc |-> "start", entered |-> EmptyStr, url |-> EmptyStr,
              sent |-> << >>]

\* the click listeners are registered once the stored flag has been read
Listening == popupPc \in {"probeLocal", "probeOverride", "probing", "idle"}

(* --------------------------- popup: opening ---------------------------- *)

\* a toggle write of an earlier popup session, before this popup opens
EarlierWrite(v) ==
    /\ popupPc = "closed"
    /\ store # v
    /\ store' = v
    /\ UNCHANGED <<storeQueue, written, activeTab, tabInbox>>
    /\ UNCHANGED <<bgVars, popupVars, pageVars>>

\* DOMContentLoaded: the handler runs to its first await, the read of
\* config_ext.json in loadConfig; `tab` is the tab the popup was opened on
PopupOpens(tab) ==
    /\ popupPc = "closed"
    /\ popupPc' = "cfgLocal"
    /\ activeTab' = tab
    /\ UNCHANGED <<store, storeQueue, written, tabInbox>>
    /\ UNCHANGED <<CONFIG, currentMode, popupFloatEnabled, urlInput, serverUrlInput,
                   baseStatus, status, tempStatusTimer, timeouts, disabled, acts,
                   popupUrls>>
    /\ UNCHANGED <<bgVars, pageVars>>

\* a request URL or a link the popup has built
Requested(kind, url) == [kind |-> kind, url |-> url]

\* the handler's read of config_ext.json settles (loadConfig: fetch and
\* res.json()).  On success CONFIG is set and the override is requested; on
\* failure loadConfig throws, the handler's catch shows the error, and the
\* handler goes on to set the Mode and to read the stored flag.
PopupLocalSettle(how) ==
    /\ popupPc = "cfgLocal"
    /\ IF how = "ok"
       THEN /\ CONFIG' = bundled
            /\ popupUrls' = popupUrls \cup {Requested("override", OverrideUrl(CONFIG'))}
            /\ popupPc' = "cfgOverride"
            /\ UNCHANGED <<serverUrlInput, baseStatus, status, currentMode>>
       ELSE /\ serverUrlInput' = ConfigErrorText
            /\ SetBaseStatus(ConfigErrorStatus)
            /\ currentMode' = "video"
            /\ popupPc' = "floatRead"
            /\ UNCHANGED <<CONFIG, popupUrls>>
    /\ UNCHANGED <<popupFloatEnabled, urlInput, tempStatusTimer, timeouts, disabled, acts>>
    /\ UNCHANGED <<bgVars, envVars, pageVars>>

\* the handler's override request settles: loadConfig returns CONFIG, the
\* server URL is displayed, the Mode is set and the stored flag is read
PopupOverrideSettle(how, srv) ==
    /\ popupPc = "cfgOverride"
    /\ CONFIG' = IF how = "ok" THEN ApplyOverride(CONFIG, srv) ELSE CONFIG
    /\ serverUrlInput' = CONFIG'.server_url
    /\ currentMode' = "video"
    /\ popupPc' = "floatRead"
    /\ UNCHANGED <<popupFloatEnabled, urlInput, baseStatus, status, tempStatusTimer,
                   timeouts, disabled, acts, popupUrls>>
    /\ UNCHANGED <<bgVars, envVars, pageVars>>

\* getFloatEnabled returns: the toggle is rendered, the click listeners are
\* registered, and testServer runs to its first pending fetch: the ping when
\* CONFIG is cached, the read of config_ext.json otherwise
PopupFloatRead ==
    /\ popupPc = "floatRead"
    /\ popupFloatEnabled' = StoredTrue(store)
    /\ IF CONFIG # Null
       THEN /\ popupUrls' = popupUrls \cup {Requested("ping", PingUrl(CONFIG))}
            /\ popupPc' = "probing"
       ELSE /\ popupPc' = "probeLocal"
            /\ UNCHANGED popupUrls
    /\ UNCHANGED <<CONFIG, currentMode, urlInput, serverUrlInput, baseStatus, status,
                   tempStatusTimer, timeouts, disabled, acts>>
    /\ UNCHANGED <<bgVars, envVars, pageVars>>

\* testServer's read of config_ext.json settles; a failure makes testServer
\* return false
ProbeLocalSettle(how) ==
    /\ popupPc = "probeLocal"
    /\ IF how = "ok"
       THEN /\ CONFIG' = bundled
            /\ popupUrls' = popupUrls \cup {Requested("override", OverrideUrl(CONFIG'))}
            /\ popupPc' = "probeOverride"
            /\ UNCHANGED <<baseStatus, status>>
       ELSE /\ SetBaseStatus(DisconnectedStatus)
            /\ popupPc' = "idle"
            /\ UNCHANGED <<CONFIG, popupUrls>>
    /\ UNCHANGED <<currentMode, popupFloatEnabled, urlInput, serverUrlInput,
                   tempStatusTimer, timeouts, disabled, acts>>
    /\ UNCHANGED <<bgVars, envVars, pageVars>>

\* testServer's override request settles and the ping is requested
ProbeOverrideSettle(how, srv) ==
    /\ popupPc = "probeOverride"
    /\ CONFIG' = IF how = "ok" THEN ApplyOverride(CONFIG, srv) ELSE CONFIG
    /\ popupUrls' = popupUrls \cup {Requested("ping", PingUrl(CONFIG'))}
    /\ popupPc' = "probing"
    /\ UNCHANGED <<currentMode, popupFloatEnabled, urlInput, serverUrlInput, baseStatus,
                   status, tempStatusTimer, timeouts, disabled, acts>>
    /\ UNCHANGED <<bgVars, envVars, pageVars>>

\* the ping settles: resp.ok, or false when fetch throws; the base status is set
PingSettle(alive) ==
    /\ popupPc = "probing"
    /\ SetBaseStatus(IF alive THEN ConnectedStatus ELSE DisconnectedStatus)
    /\ popupPc' = "idle"
    /\ UNCHANGED <<CONFIG, currentMode, popupFloatEnabled, urlInput, serverUrlInput,
                   tempStatusTimer, timeouts, disabled, acts, popupUrls>>
    /\ UNCHANGED <<bgVars, envVars, pageVars>>

\* The oldest revert timeout fires: the base status is shown again.  The
\* handle in tempStatusTimer is that of the timeout set last.
TempStatusExpires ==
    /\ timeouts > 0
    /\ status' = baseStatus
    /\ timeouts' = timeouts - 1
    /\ tempStatusTimer' = IF timeouts = 1 THEN "fired" ELSE tempStatusTimer
    /\ UNCHANGED <<CONFIG, currentMode, popupFloatEnabled, urlInput, serverUrlInput,
                   baseStatus, disabled, popupPc, acts, popupUrls>>
    /\ UNCHANGED <<bgVars, envVars, pageVars>>

(* --------------------------- popup: clicks ----------------------------- *)

\* the DIRECT_DOWNLOAD message a download button sends
PopupIntent(url, modo) ==
    [type |-> "DIRECT_DOWNLOAD", url |-> url, modo |-> modo, fromFloat |-> "undefined"]

\* every button sending the current Mode
ButtonModo_AlwaysCurrent(b) == currentMode

\* the modo a download button puts in its message
ButtonModo(b) ==
    CASE b = "download" -> currentMode
      [] b = "current" -> "video"
      [] b = "playlist" -> "playlist"

\* a handler that needs no tab query disables its button and sends its message
SendAtOnce(b, entered, url) ==
    /\ disabled' = [disabled EXCEPT ![b] = TRUE]
    /\ acts' = Append(acts, [kind |-> b, pc |-> "sent", entered |-> entered, url |-> url,
                             sent |-> <<PopupIntent(url, ButtonModo(b))>>])

\* modeSwitch click
ModeSwitchClick ==
    /\ Listening
    /\ currentMode' = IF currentMode = "video" THEN "playlist" ELSE "video"
    /\ UNCHANGED <<CONFIG, popupFloatEnabled, urlInput, serverUrlInput, baseStatus, status,
                   tempStatusTimer, timeouts, disabled, popupPc, acts, popupUrls>>
    /\ UNCHANGED <<bgVars, envVars, pageVars>>

\* the user edits the free-text URL field
TypeUrl(text) ==
    /\ popupPc # "closed"
    /\ urlInput # text
    /\ urlInput' = text
    /\ UNCHANGED <<CONFIG, currentMode, popupFloatEnabled, serverUrlInput, baseStatus,
                   status, tempStatusTimer, timeouts, disabled, popupPc, acts, popupUrls>>
    /\ UNCHANGED <<bgVars, envVars, pageVars>>

\* the toggle reading the stored flag again and writing its negation
ToggleClick_FromStore ==
    /\ Listening
    /\ Len(acts) < MaxActs
    /\ popupFloatEnabled' = ~StoredTrue(store)
    /\ storeQueue' = Append(storeQueue,
           [act |-> Len(acts) + 1,
            key |-> SetFloatEnabled(popupFloatEnabled').key,
            value |-> SetFloatEnabled(popupFloatEnabled').value])
    /\ acts' = Append(acts, [Act("toggle") EXCEPT !.pc = "writing"])
    /\ UNCHANGED <<store, written, activeTab, tabInbox>>
    /\ UNCHANGED <<CONFIG, currentMode, urlInput, serverUrlInput, baseStatus, status,
                   tempStatusTimer, timeouts, disabled, popupPc, popupUrls>>
    /\ UNCHANGED <<bgVars, pageVars>>

\* toggleFloatBtn click, up to await setFloatEnabled(floatEnabled)
ToggleClick ==
    /\ Listening
    /\ Len(acts) < MaxActs
    /\ popupFloatEnabled' = ~popupFloatEnabled
    /\ storeQueue' = Append(storeQueue,
           [act |-> Len(acts) + 1,
            key |-> SetFloatEnabled(popupFloatEnabled').key,
            value |-> SetFloatEnabled(popupFloatEnabled').value])
    /\ acts' = Append(acts, [Act("toggle") EXCEPT !.pc = "writing"])
    /\ UNCHANGED <<store, written, activeTab, tabInbox>>
    /\ UNCHANGED <<CONFIG, currentMode, urlInput, serverUrlInput, baseStatus, status,
                   tempStatusTimer, timeouts, disabled, popupPc, popupUrls>>
    /\ UNCHANGED <<bgVars, pageVars>>

\* the oldest chrome.storage.local.set completes; the toggle handler that
\* issued it, when its popup is still open (act is 0 otherwise), renders the
\* toggle and asks for the active tab
StorageWriteDone ==
    /\ storeQueue # << >>
    /\ store' = IF Head(storeQueue).key = STORAGE_FLOAT
                THEN Head(storeQueue).value ELSE store
    /\ written' = IF Head(storeQueue).key = STORAGE_FLOAT
                  THEN written \cup {Head(storeQueue).value} ELSE written
    /\ storeQueue' = Tail(storeQueue)
    /\ acts' = IF Head(storeQueue).act \in 1..Len(acts)
               THEN [acts EXCEPT ![Head(storeQueue).act].pc = "tabQuery"]
               ELSE acts
    /\ UNCHANGED <<activeTab, tabInbox>>
    /\ UNCHANGED <<CONFIG, currentMode, popupFloatEnabled, urlInput, serverUrlInput,
                   baseStatus, status, tempStatusTimer, timeouts, disabled, popupPc,
                   popupUrls>>
    /\ UNCHANGED <<bgVars, pageVars>>

\* the SET_FLOAT_BUTTON message the toggle handler sends
Broadcast(enabled) == [type |-> "SET_FLOAT_BUTTON", enabled |-> enabled]

\* the toggle handler's chrome.tabs.query answers: with a tab, the message
\* is sent with the value floatEnabled has now
ToggleQueryDone(i) ==
    /\ i \in 1..Len(acts)
    /\ acts[i].kind = "toggle"
    /\ acts[i].pc = "tabQuery"
    /\ IF activeTab.exists
       THEN /\ tabInbox' = Append(tabInbox, Broadcast(popupFloatEnabled))
            /\ acts' = [acts EXCEPT ![i].pc = "done",
                                    ![i].sent = <<Broadcast(popupFloatEnabled)>>]
       ELSE /\ acts' = [acts EXCEPT ![i].pc = "done"]
            /\ UNCHANGED tabInbox
    /\ UNCHANGED <<store, storeQueue, written, activeTab>>
    /\ UNCHANGED <<CONFIG, currentMode, popupFloatEnabled, urlInput, serverUrlInput,
                   baseStatus, status, tempStatusTimer, timeouts, disabled, popupPc,
                   popupUrls>>
    /\ UNCHANGED <<bgVars, pageVars>>

\* click on download button b.  downloadBtn and downloadPlaylistBtn take the
\* trimmed text of the URL field and send at once when it is not empty;
\* otherwise, and always for downloadCurrentBtn, the active tab is asked for.
DownloadClick(b) ==
    LET entered == IF b = "current" THEN EmptyStr ELSE urlInput
        url == Trim(entered)
    IN
    /\ Listening
    /\ ~disabled[b]
    /\ Len(acts) < MaxActs
    /\ IF url # EmptyStr
       THEN SendAtOnce(b, entered, url)
       ELSE /\ acts' = Append(acts, [Act(b) EXCEPT !.pc = "tabQuery", !.entered = entered])
            /\ UNCHANGED disabled
    /\ UNCHANGED <<CONFIG, currentMode, popupFloatEnabled, urlInput, serverUrlInput,
                   baseStatus, status, tempStatusTimer, timeouts, popupPc, popupUrls>>
    /\ UNCHANGED <<bgVars, envVars, pageVars>>

\* a download handler's chrome.tabs.query answers: url = tab?.url || "";
\* without a URL a temporary status is shown, otherwise the message is sent
DownloadQueryDone(i) ==
    /\ i \in 1..Len(acts)
    /\ acts[i].kind \in Buttons
    /\ acts[i].pc = "tabQuery"
    /\ IF activeTab.url = EmptyStr
       THEN /\ ShowTempStatus(IF acts[i].kind = "current"
                              THEN NoActiveUrlStatus ELSE NoUrlStatus)
            /\ acts' = [acts EXCEPT ![i].pc = "done"]
            /\ UNCHANGED disabled
       ELSE /\ disabled' = [disabled EXCEPT ![acts[i].kind] = TRUE]
            /\ acts' = [acts EXCEPT
                   ![i].pc = "sent", ![i].url = activeTab.url,
                   ![i].sent = <<PopupIntent(activeTab.url, ButtonModo(acts[i].kind))>>]
            /\ UNCHANGED <<status, tempStatusTimer, timeouts>>
    /\ UNCHANGED <<CONFIG, currentMode, popupFloatEnabled, urlInput, serverUrlInput,
                   baseStatus, popupPc, popupUrls>>
    /\ UNCHANGED <<bgVars, envVars, pageVars>>

\* the URL field cleared and the Mode left as it is
ResetAfterSend_KeepMode ==
    /\ urlInput' = EmptyStr
    /\ UNCHANGED currentMode

\* resetAfterSend: the URL field is cleared and the Mode is video again
ResetAfterSend ==
    /\ urlInput' = EmptyStr
    /\ currentMode' = "video"

\* the callback of chrome.runtime.sendMessage runs, with a response or with
\* chrome.runtime.lastError set: neither is looked at
SendCallback(i) ==
    /\ i \in 1..Len(acts)
    /\ acts[i].kind \in Buttons
    /\ acts[i].pc = "sent"
    /\ disabled' = [disabled EXCEPT ![acts[i].kind] = FALSE]
    /\ ResetAfterSend
    /\ ShowTempStatus(SentStatus(acts[i].kind))
    /\ acts' = [acts EXCEPT ![i].pc = "done"]
    /\ UNCHANGED <<CONFIG, popupFloatEnabled, serverUrlInput, baseStatus, popupPc,
                   popupUrls>>
    /\ UNCHANGED <<bgVars, envVars, pageVars>>

\* the temporary status of a link button whose loadConfig threw
LinkErrorStatus == [text |-> "No se pudo leer config_ext.json", ok |-> FALSE]

\* viewQueueBtn / openDownloadsBtn click: with CONFIG cached the link is
\* opened with chrome.tabs.create; otherwise loadConfig reads config_ext.json
LinkClick(kind) ==
    /\ Listening
    /\ Len(acts) < MaxActs
    /\ IF CONFIG # Null
       THEN /\ popupUrls' = popupUrls \cup {Requested(kind, LinkUrl(CONFIG, kind))}
            /\ acts' = Append(acts, [Act(kind) EXCEPT !.pc = "done"])
       ELSE /\ acts' = Append(acts, [Act(kind) EXCEPT !.pc = "local"])
            /\ UNCHANGED popupUrls
    /\ UNCHANGED <<CONFIG, currentMode, popupFloatEnabled, urlInput, serverUrlInput,
                   baseStatus, status, tempStatusTimer, timeouts, disabled, popupPc>>
    /\ UNCHANGED <<bgVars, envVars, pageVars>>

\* a link handler's read of config_ext.json settles
LinkLocalSettle(i, how) ==
    /\ i \in 1..Len(acts)
    /\ acts[i].pc = "local"
    /\ IF how = "ok"
       THEN /\ CONFIG' = bundled
            /\ popupUrls' = popupUrls \cup {Requested("override", OverrideUrl(CONFIG'))}
            /\ acts' = [acts EXCEPT ![i].pc = "override"]
            /\ UNCHANGED <<status, tempStatusTimer, timeouts>>
       ELSE /\ ShowTempStatus(LinkErrorStatus)
            /\ acts' = [acts EXCEPT ![i].pc = "done"]
            /\ UNCHANGED <<CONFIG, popupUrls>>
    /\ UNCHANGED <<currentMode, popupFloatEnabled, urlInput, serverUrlInput, baseStatus,
                   disabled, popupPc>>
    /\ UNCHANGED <<bgVars, envVars, pageVars>>

\* a link handler's override request settles and the link is opened
LinkOverrideSettle(i, how, srv) ==
    /\ i \in 1..Len(acts)
    /\ acts[i].pc = "override"
    /\ CONFIG' = IF how = "ok" THEN ApplyOverride(CONFIG, srv) ELSE CONFIG
    /\ popupUrls' = popupUrls \cup {Requested(acts[i].kind, LinkUrl(CONFIG', acts[i].kind))}
    /\ acts' = [acts EXCEPT ![i].pc = "done"]
    /\ UNCHANGED <<currentMode, popupFloatEnabled, urlInput, serverUrlInput, baseStatus,
                   status, tempStatusTimer, timeouts, disabled, popupPc>>
    /\ UNCHANGED <<bgVars, envVars, pageVars>>

(* ------------------------ popup: specifications ------------------------ *)

ActIds == 1..MaxActs

\* The popup from its opening on: the toggle, the Mode switch, the URL field
\* and the three download buttons.  In the open sequence config_ext.json is
\* read or is not, and the override server does not answer.
PopupNext ==
    \/ \E v \in {"true", "false"} : EarlierWrite(v)
    \/ \E tab \in ActiveTabs : PopupOpens(tab)
    \/ \E how \in {"ok", "unreadable"} : PopupLocalSettle(how)
    \/ PopupOverrideSettle("neterror", NoBody)
    \/ PopupFloatRead
    \/ ProbeLocalSettle("unreadable")
    \/ \E alive \in BOOLEAN : PingSettle(alive)
    \/ TempStatusExpires
    \/ ModeSwitchClick
    \/ \E text \in EnteredTexts : TypeUrl(text)
    \/ ToggleClick
    \/ StorageWriteDone
    \/ \E i \in ActIds : ToggleQueryDone(i)
    \/ \E b \in Buttons : DownloadClick(b)
    \/ \E i \in ActIds : DownloadQueryDone(i)
    \/ \E i \in ActIds : SendCallback(i)

PopupSpec == Init /\ [][PopupNext]_vars

\* a download request from the popup, as the background listener receives it
PopupMessage == [type |-> "DIRECT_DOWNLOAD", url |-> HttpUrl, modo |-> "video",
                 fromFloat |-> "false", tabUrl |-> EmptyStr]

\* Everything that builds a URL from the configuration: the popup's open
\* sequence and its two link buttons, with every answer of the override
\* server, and the background handling one download request.
UrlNext ==
    \/ \E tab \in {NoTab} : PopupOpens(tab)
    \/ \E how \in {"ok", "unreadable"} : PopupLocalSettle(how)
    \/ \E how \in {"neterror", "status", "malformed"} : PopupOverrideSettle(how, NoBody)
    \/ \E srv \in OverrideBodies : PopupOverrideSettle("ok", srv)
    \/ PopupFloatRead
    \/ \E how \in {"ok", "unreadable"} : ProbeLocalSettle(how)
    \/ \E how \in {"neterror", "status", "malformed"} : ProbeOverrideSettle(how, NoBody)
    \/ \E srv \in OverrideBodies : ProbeOverrideSettle("ok", srv)
    \/ \E alive \in BOOLEAN : PingSettle(alive)
    \/ TempStatusExpires
    \/ \E kind \in {"viewQueue", "openDownloads"} : LinkClick(kind)
    \/ \E i \in ActIds, how \in {"ok", "unreadable"} : LinkLocalSettle(i, how)
    \/ \E i \in ActIds, how \in {"neterror", "status", "malformed"} :
           LinkOverrideSettle(i, how, NoBody)
    \/ \E i \in ActIds, srv \in OverrideBodies : LinkOverrideSettle(i, "ok", srv)
    \/ RouterHandler(1, PopupMessage, NoMsg)
    \/ \E how \in {"ok", "unreadable"} : LocalReadSettle(1, how)
    \/ \E how \in {"neterror", "status", "malformed"} : OverrideSettle(1, how, NoBody)
    \/ \E srv \in OverrideBodies : OverrideSettle(1, "ok", srv)
    \/ SendDownloadStart(1)
    \/ PostSettle(1, NetError)

UrlSpec == Init /\ [][UrlNext]_vars

(* ---------------------- content script: decisions ---------------------- *)

\* the URLs the page of the active tab can be at
PageUrls == {HttpsUrl, NotAUrl}

\* btn.textContent: the arrow, the check mark and the cross
ArrowGlyph == "arrow"
CheckGlyph == "check"
CrossGlyph == "cross"

\* the responses the callback of the overlay's sendMessage can run with:
\* chrome.runtime.lastError set, or a response with ok true or false
ClickResults == {"lastError", "ok", "failed"}

\* createButton leaving the new button with its initial display: none
CreateButton_Hidden(b, body, enabled) ==
    IF ~body \/ b # Null THEN b
    ELSE [display |-> "none", text |-> ArrowGlyph]

\* createButton: nothing without document.body or with a button already
\* there; otherwise the button is appended and updateVisibility shows it
\* when floatEnabled
CreateButton(b, body, enabled) ==
    IF ~body \/ b # Null THEN b
    ELSE [display |-> IF enabled THEN "block" ELSE "none", text |-> ArrowGlyph]

\* createButton appending a button whether or not btn holds one
AppendButton_Unguarded(b, body, n) == IF ~body THEN n ELSE n + 1

\* createButton: document.body.appendChild(btn), after the same early return
AppendButton(b, body, n) == IF ~body \/ b # Null THEN n ELSE n + 1

\* removeButton: btn.parentNode.removeChild(btn) when btn holds a button,
\* which is in the document since createButton appended it
RemoveButton(b, n) == IF b # Null THEN n - 1 ELSE n

\* floatEnabled = enabled; if (floatEnabled) createButton() else removeButton()
ApplyFlag(enabled) ==
    /\ pageFloatEnabled' = enabled
    /\ btn' = IF enabled THEN CreateButton(btn, hasBody, enabled) ELSE Null
    /\ attached' = IF enabled THEN AppendButton(btn, hasBody, attached)
                   ELSE RemoveButton(btn, attached)

\* the click message with the flag left out
OverlayIntent_NoFlag(url) ==
    [type |-> "DIRECT_DOWNLOAD", url |-> url, modo |-> "video", fromFloat |-> "undefined"]

\* { type: "DIRECT_DOWNLOAD", url, modo: "video", fromFloat: true }
OverlayIntent(url) ==
    [type |-> "DIRECT_DOWNLOAD", url |-> url, modo |-> "video", fromFloat |-> "true"]

\* updateUrl leaving the tracked URL as it was
UpdateUrl_Keep(tracked, href) == tracked

\* updateUrl: currentUrl = window.location.href
UpdateUrl(tracked, href) == href

\* btn.textContent = (res && res.ok) ? check : cross, cross with lastError
ResultGlyph(res) == IF res = "ok" THEN CheckGlyph ELSE CrossGlyph

(* ----------------------- content script: actions ----------------------- *)

\* The content script runs in a page at url.  While the document is loading
\* addOrInit waits for DOMContentLoaded; otherwise it runs at once, and with
\* a document body initFloatState issues the storage read.
PageStarts(url, loading, body) ==
    /\ pagePc = "none"
    /\ location' = url
    /\ currentUrl' = url
    /\ btn' = Null
    /\ attached' = 0
    /\ pageFloatEnabled' = FALSE
    /\ readValue' = "none"
    /\ wroteSinceStart' = FALSE
    /\ clicks' = << >>
    /\ hasBody' = body
    /\ pagePc' = IF loading THEN "loading" ELSE IF body THEN "reading" ELSE "ready"
    /\ UNCHANGED <<bgVars, envVars, popupVars>>

\* the parser creates document.body while the document is loading
BodyParsed ==
    /\ pagePc = "loading"
    /\ ~hasBody
    /\ hasBody' = TRUE
    /\ UNCHANGED <<pagePc, btn, attached, pageFloatEnabled, location, currentUrl, readValue,
                   wroteSinceStart, clicks>>
    /\ UNCHANGED <<bgVars, envVars, popupVars>>

\* DOMContentLoaded: addOrInit
DomContentLoaded ==
    /\ pagePc = "loading"
    /\ pagePc' = IF hasBody THEN "reading" ELSE "ready"
    /\ UNCHANGED <<hasBody, btn, attached, pageFloatEnabled, location, currentUrl, readValue,
                   wroteSinceStart, clicks>>
    /\ UNCHANGED <<bgVars, envVars, popupVars>>

\* the browser performs the chrome.storage.local.get of initFloatState
StorageRead ==
    /\ pagePc = "reading"
    /\ readValue = "none"
    /\ readValue' = store
    /\ UNCHANGED <<pagePc, hasBody, btn, attached, pageFloatEnabled, location, currentUrl,
                   wroteSinceStart, clicks>>
    /\ UNCHANGED <<bgVars, envVars, popupVars>>

\* the callback of initFloatState runs with the value read
InitFloatCallback ==
    /\ pagePc = "reading"
    /\ readValue # "none"
    /\ ApplyFlag(StoredTrue(readValue))
    /\ pagePc' = "ready"
    /\ readValue' = "none"
    /\ wroteSinceStart' = FALSE
    /\ UNCHANGED <<hasBody, location, currentUrl, clicks>>
    /\ UNCHANGED <<bgVars, envVars, popupVars>>

\* a toggle write of a popup completes
FlagWritten(v) ==
    /\ store # v
    /\ store' = v
    /\ written' = written \cup {v}
    /\ wroteSinceStart' = (wroteSinceStart \/ pagePc \in {"loading", "reading"})
    /\ UNCHANGED <<storeQueue, activeTab, tabInbox>>
    /\ UNCHANGED <<pagePc, hasBody, btn, attached, pageFloatEnabled, location, currentUrl, readValue,
                   clicks>>
    /\ UNCHANGED <<bgVars, popupVars>>

\* a popup sends SET_FLOAT_BUTTON to the tab
PopupBroadcasts(enabled) ==
    /\ Len(tabInbox) < MaxInbox
    /\ tabInbox' = Append(tabInbox, Broadcast(enabled))
    /\ UNCHANGED <<store, storeQueue, written, activeTab>>
    /\ UNCHANGED <<bgVars, popupVars, pageVars>>

\* the content script's chrome.runtime.onMessage listener
OnSetFloatButton ==
    /\ pagePc # "none"
    /\ tabInbox # << >>
    /\ tabInbox' = Tail(tabInbox)
    /\ Head(tabInbox).type = "SET_FLOAT_BUTTON"
    /\ ApplyFlag(Head(tabInbox).enabled)
    /\ UNCHANGED <<store, storeQueue, written, activeTab>>
    /\ UNCHANGED <<pagePc, hasBody, location, currentUrl, readValue, wroteSinceStart,
                   clicks>>
    /\ UNCHANGED <<bgVars, popupVars>>

\* a message for a tab without the content script is dropped
BroadcastLost ==
    /\ pagePc = "none"
    /\ tabInbox # << >>
    /\ tabInbox' = Tail(tabInbox)
    /\ UNCHANGED <<store, storeQueue, written, activeTab>>
    /\ UNCHANGED <<bgVars, popupVars, pageVars>>

\* The page changes its URL without a reload.  The popstate and hashchange
\* listeners, and the wrapped history.pushState / replaceState when the call
\* goes through them, run updateUrl (notified); any other change is not seen
\* until the next poll.
LocationChanges(url, notified) ==
    /\ pagePc # "none"
    /\ location # url
    /\ location' = url
    /\ currentUrl' = IF notified THEN UpdateUrl(currentUrl, url) ELSE currentUrl
    /\ UNCHANGED <<pagePc, hasBody, btn, attached, pageFloatEnabled, readValue, wroteSinceStart,
                   clicks>>
    /\ UNCHANGED <<bgVars, envVars, popupVars>>

\* setInterval(updateUrl, 2000)
PollTick ==
    /\ pagePc # "none"
    /\ currentUrl # location
    /\ currentUrl' = UpdateUrl(currentUrl, location)
    /\ UNCHANGED <<pagePc, hasBody, btn, attached, pageFloatEnabled, location, readValue,
                   wroteSinceStart, clicks>>
    /\ UNCHANGED <<bgVars, envVars, popupVars>>

\* a click on the visible overlay button: the message is sent
OverlayClick ==
    /\ btn # Null
    /\ btn.display = "block"
    /\ Len(clicks) < MaxClicks
    /\ clicks' = Append(clicks, [pc |-> "sent", sent |-> <<OverlayIntent(currentUrl)>>,
                                 result |-> "none"])
    /\ UNCHANGED <<pagePc, hasBody, btn, attached, pageFloatEnabled, location, currentUrl, readValue,
                   wroteSinceStart>>
    /\ UNCHANGED <<bgVars, envVars, popupVars>>

\* The callback of the click's sendMessage runs: the glyph is put on btn and
\* the revert timer is set.  btn is the script's variable, not the button
\* clicked: when it is null by now the assignment throws.
ClickCallback(i, res) ==
    /\ i \in 1..Len(clicks)
    /\ clicks[i].pc = "sent"
    /\ IF btn = Null
       THEN /\ clicks' = [clicks EXCEPT ![i].pc = "threw", ![i].result = res]
            /\ UNCHANGED btn
       ELSE /\ btn' = [btn EXCEPT !.text = ResultGlyph(res)]
            /\ clicks' = [clicks EXCEPT ![i].pc = "glyph", ![i].result = res]
    /\ UNCHANGED <<pagePc, hasBody, attached, pageFloatEnabled, location, currentUrl,
                   readValue, wroteSinceStart>>
    /\ UNCHANGED <<bgVars, envVars, popupVars>>

\* setTimeout(() => (btn.textContent = arrow), 1500) fires
GlyphReverts(i) ==
    /\ i \in 1..Len(clicks)
    /\ clicks[i].pc = "glyph"
    /\ IF btn = Null
       THEN /\ clicks' = [clicks EXCEPT ![i].pc = "threw"]
            /\ UNCHANGED btn
       ELSE /\ btn' = [btn EXCEPT !.text = ArrowGlyph]
            /\ clicks' = [clicks EXCEPT ![i].pc = "done"]
    /\ UNCHANGED <<pagePc, hasBody, attached, pageFloatEnabled, location, currentUrl,
                   readValue, wroteSinceStart>>
    /\ UNCHANGED <<bgVars, envVars, popupVars>>

\* the page is left or reloaded: the content script and its state are gone
PageUnloads ==
    /\ pagePc # "none"
    /\ pagePc' = "none"
    /\ hasBody' = FALSE
    /\ btn' = Null
    /\ attached' = 0
    /\ pageFloatEnabled' = FALSE
    /\ location' = EmptyStr
    /\ currentUrl' = EmptyStr
    /\ readValue' = "none"
    /\ wroteSinceStart' = FALSE
    /\ clicks' = << >>
    /\ UNCHANGED <<bgVars, envVars, popupVars>>

(* ------------------- content script: specification --------------------- *)

ClickIds == 1..MaxClicks

\* The content script of one tab through page loads, with the popup as its
\* environment: toggle writes to the store and SET_FLOAT_BUTTON messages
\* arrive at any time.
PageNext ==
    \/ \E url \in PageUrls : PageStarts(url, TRUE, FALSE)
    \/ \E url \in PageUrls, body \in BOOLEAN : PageStarts(url, FALSE, body)
    \/ BodyParsed
    \/ DomContentLoaded
    \/ StorageRead
    \/ InitFloatCallback
    \/ \E v \in {"true", "false"} : FlagWritten(v)
    \/ \E enabled \in BOOLEAN : PopupBroadcasts(enabled)
    \/ OnSetFloatButton
    \/ BroadcastLost
    \/ \E url \in PageUrls, notified \in BOOLEAN : LocationChanges(url, notified)
    \/ PollTick
    \/ OverlayClick
    \/ \E i \in ClickIds, res \in ClickResults : ClickCallback(i, res)
    \/ \E i \in ClickIds : GlyphReverts(i)
    \/ PageUnloads

\* the installed package does not matter to the content script: one is taken
PageInit == Init /\ bundled.token = "t0"

PageSpec == PageInit /\ [][PageNext]_vars

\* setInterval(updateUrl, 2000) keeps firing while the page lives
PageFairSpec == PageSpec /\ WF_vars(PollTick)

(* ------------------ overlay click to background and back --------------- *)

\* The i-th overlay click's message as the background listener receives it,
\* sender.tab.url being the page's location
ClickMessage(i) ==
    LET sent == clicks[i].sent[1] IN
    [type |-> sent.type, url |-> sent.url, modo |-> sent.modo,
     fromFloat |-> sent.fromFloat, tabUrl |-> location]

\* The runtime delivers the i-th click's message: the clicks of one page
\* reach the listener in the order they were sent
ClickDelivered(i) ==
    /\ i \in 1..Len(clicks)
    /\ RouterHandler(i, ClickMessage(i), NoMsg)

\* What the runtime calls the click's callback with: the first value passed
\* to sendResponse, or chrome.runtime.lastError when the async function threw
\* and the reply channel closed unanswered
ClickReply(i, res) ==
    IF responses[i] # << >>
    THEN res = IF responses[i][1].ok THEN "ok" ELSE "failed"
    ELSE pc[i] = "crashed" /\ res = "lastError"

\* the callback of the i-th click runs with the background's answer
ClickAnswered(i) ==
    \E res \in ClickResults : ClickReply(i, res) /\ ClickCallback(i, res)

\* One page with the overlay, the background serving its clicks, and the
\* popup switching the overlay on and off meanwhile.
RelayNext ==
    \/ \E url \in PageUrls : PageStarts(url, FALSE, TRUE)
    \/ FlagWritten("true")
    \/ StorageRead
    \/ InitFloatCallback
    \/ \E enabled \in BOOLEAN : PopupBroadcasts(enabled)
    \/ OnSetFloatButton
    \/ OverlayClick
    \/ \E i \in ClickIds : ClickDelivered(i)
    \/ \E m \in MsgIds, how \in {"ok", "unreadable"} : LocalReadSettle(m, how)
    \/ \E m \in MsgIds : OverrideSettle(m, "neterror", NoBody)
    \/ \E m \in MsgIds : SendDownloadStart(m)
    \/ \E m \in MsgIds, ans \in {NetError} \cup HttpAnswers : PostSettle(m, ans)
    \/ \E i \in ClickIds : ClickAnswered(i)
    \/ \E i \in ClickIds : GlyphReverts(i)

RelaySpec == Init /\ [][RelayNext]_vars

(* ------------------- popup send to background and back ----------------- *)

\* The popup is closed: its document and every handler run in it are gone,
\* with their timers and callbacks.  Storage writes already issued still
\* complete, with no handler left to resume.
PopupCloses ==
    /\ popupPc # "closed"
    /\ CONFIG' = Null
    /\ currentMode' = "video"
    /\ popupFloatEnabled' = FALSE
    /\ urlInput' = EmptyStr
    /\ serverUrlInput' = EmptyStr
    /\ baseStatus' = NoStatus
    /\ status' = NoStatus
    /\ tempStatusTimer' = "null"
    /\ timeouts' = 0
    /\ disabled' = [b \in Buttons |-> FALSE]
    /\ popupPc' = "closed"
    /\ acts' = << >>
    /\ popupUrls' = {}
    /\ storeQueue' = [k \in DOMAIN storeQueue |-> [storeQueue[k] EXCEPT !.act = 0]]
    /\ UNCHANGED <<store, written, activeTab, tabInbox>>
    /\ UNCHANGED <<bgVars, pageVars>>

\* the number the message of the popup's i-th handler run has among the
\* messages the popup has sent to the background
MsgOfAct(i) == Cardinality({j \in 1..i : acts[j].kind \in Buttons /\ acts[j].sent # << >>})

\* The message of the i-th handler run as the background listener receives
\* it; the popup is not a tab, so sender.tab is undefined
ActMessage(i) ==
    LET sent == acts[i].sent[1] IN
    [type |-> sent.type, url |-> sent.url, modo |-> sent.modo,
     fromFloat |-> sent.fromFloat, tabUrl |-> EmptyStr]

\* the runtime delivers the message of the popup's i-th handler run
ActDelivered(i) ==
    /\ i \in 1..Len(acts)
    /\ acts[i].kind \in Buttons
    /\ acts[i].sent # << >>
    /\ RouterHandler(MsgOfAct(i), ActMessage(i), NoMsg)

\* the send callback of the i-th handler run is called once the background
\* has answered, or once its async function threw and the channel closed
ActAnswered(i) ==
    /\ i \in 1..Len(acts)
    /\ acts[i].kind \in Buttons
    /\ acts[i].sent # << >>
    /\ responses[MsgOfAct(i)] # << >> \/ pc[MsgOfAct(i)] = "crashed"
    /\ SendCallback(i)

\* a download request sent once the popup is gone, by a later popup or page
LaterSubmission(m) ==
    /\ popupPc = "closed"
    /\ delivered >= 1
    /\ RouterHandler(m, PopupMessage, NoMsg)

\* the background's steps for message m in SubmitNext
SubmitProgress(m) ==
    \/ \E how \in {"ok", "unreadable"} : LocalReadSettle(m, how)
    \/ OverrideSettle(m, "neterror", NoBody)
    \/ SendDownloadStart(m)
    \/ \E ans \in {NetError} \cup HttpAnswers : PostSettle(m, ans)

\* One popup sending download requests to the background and being closed at
\* any moment, before or after the answer; once messages of a popup have
\* been delivered, later requests come from elsewhere.
SubmitNext ==
    \/ delivered = 0 /\ PopupOpens([exists |-> TRUE, url |-> HttpsUrl])
    \/ \E how \in {"ok", "unreadable"} : PopupLocalSettle(how)
    \/ PopupOverrideSettle("neterror", NoBody)
    \/ PopupFloatRead
    \/ ProbeLocalSettle("unreadable")
    \/ PingSettle(FALSE)
    \/ TempStatusExpires
    \/ TypeUrl(PaddedUrl)
    \/ \E b \in Buttons : DownloadClick(b)
    \/ \E i \in ActIds : DownloadQueryDone(i)
    \/ \E i \in ActIds : ActDelivered(i)
    \/ \E i \in ActIds : ActAnswered(i)
    \/ PopupCloses
    \/ \E m \in MsgIds : LaterSubmission(m)
    \/ \E m \in MsgIds : SubmitProgress(m)

SubmitSpec == Init /\ [][SubmitNext]_vars

\* every network call of the background settles and every runnable
\* continuation runs
SubmitFairSpec == SubmitSpec /\ \A m \in MsgIds : WF_vars(SubmitProgress(m))

(* -------------------------- popup sessions ----------------------------- *)

\* The popup opened, used and closed again and again, while another writer
\* (a popup of another window) writes the flag at any moment.  The active tab
\* has no content script, so the broadcasts are dropped; a popup is opened
\* once the writes and messages of the one before have been dealt with.
SessionNext ==
    \/ \E v \in {"true", "false"} : FlagWritten(v)
    \/ /\ storeQueue = << >> /\ tabInbox = << >>
       /\ PopupOpens([exists |-> TRUE, url |-> HttpsUrl])
    \/ \E how \in {"ok", "unreadable"} : PopupLocalSettle(how)
    \/ PopupOverrideSettle("neterror", NoBody)
    \/ PopupFloatRead
    \/ ProbeLocalSettle("unreadable")
    \/ PingSettle(TRUE)
    \/ TempStatusExpires
    \/ ModeSwitchClick
    \/ TypeUrl(PaddedUrl)
    \/ ToggleClick
    \/ StorageWriteDone
    \/ \E i \in ActIds : ToggleQueryDone(i)
    \/ \E b \in Buttons : DownloadClick(b)
    \/ \E i \in ActIds : DownloadQueryDone(i)
    \/ \E i \in ActIds : SendCallback(i)
    \/ BroadcastLost
    \/ PopupCloses

SessionSpec == Init /\ [][SessionNext]_vars

(* ------------------- popup toggle and page overlay --------------------- *)

\* The popup opened on the tab of a page that runs the content script: the
\* toggle's storage writes and broadcasts on one side, the page's startup
\* read and its message listener on the other.
SyncNext ==
    \/ PopupOpens([exists |-> TRUE, url |-> HttpsUrl])
    \/ PopupLocalSettle("ok")
    \/ PopupOverrideSettle("neterror", NoBody)
    \/ PopupFloatRead
    \/ PingSettle(TRUE)
    \/ ToggleClick
    \/ StorageWriteDone
    \/ \E i \in ActIds : ToggleQueryDone(i)
    \/ PageStarts(HttpsUrl, FALSE, TRUE)
    \/ StorageRead
    \/ InitFloatCallback
    \/ OnSetFloatButton
    \/ BroadcastLost
    \/ PageUnloads

SyncSpec == Init /\ [][SyncNext]_vars

(* ------------------------------ claims --------------------------------- *)

\* message m passed the router's URL checks: sendDownload was called for it
Accepted(m) == sdResult[m].state # "notcalled"

\* the queue request of message m was answered with a success status
PostSucceeded(m) == postAnswer[m].kind = "http" /\ postAnswer[m].ok

\* C1: for every DIRECT_DOWNLOAD message that passed the URL checks, the
\* response sent to the sender says ok:true exactly when the queue POST
\* succeeded, and ok:false when the submission did not succeed
\* (misconfigured, rejected or unreachable).
C1_ReplyIsOutcome ==
    \A m \in MsgIds :
        (Accepted(m) /\ responses[m] # << >>)
            => (responses[m][1].ok <=> PostSucceeded(m))

\* the detail the claim C2 gives a rejection: the body's detail field if
\* present, else its message field, else the status text
ClaimedDetail(ans) ==
    IF ans.parsed /\ ans.detail # "undefined" THEN ans.detail
    ELSE IF ans.parsed /\ ans.message # "undefined" THEN ans.message
    ELSE ans.statusText

\* C2: when the queue POST is answered with a non-success status, sendDownload
\* yields {ok:false, errorKind:"Rejected", detail} with the detail drawn from
\* the body (detail, else message) else the status text; when the request
\* fails in transport it yields ok:false with errorKind "Unreachable".
C2_RejectedOutcome ==
    \A m \in MsgIds :
        sdResult[m].state = "returned" =>
            /\ (postAnswer[m].kind = "http" /\ ~postAnswer[m].ok)
                   => sdResult[m].value
                        = Outcome(FALSE, "Rejected", ClaimedDetail(postAnswer[m]))
            /\ (postAnswer[m].kind = "neterror")
                   => /\ sdResult[m].value.defined
                      /\ ~sdResult[m].value.ok
                      /\ sdResult[m].value.errorKind = "Unreachable"

\* the effective configuration of message m has an empty base URL or token
EffectiveConfigEmpty(m) ==
    /\ cfgCall[m].state = "returned"
    /\ \/ StripTrailingSlashes(cfgCall[m].result.server_url) = EmptyStr
       \/ cfgCall[m].result.token = ""

\* C3: with an empty serverBaseUrl or authToken in the effective
\* configuration, sendDownload returns a Misconfigured outcome and no POST to
\* the queue endpoint is made.
C3_MisconfiguredNoPost ==
    \A m \in MsgIds :
        (EffectiveConfigEmpty(m) /\ sdResult[m].state = "returned")
            => /\ posts[m] = << >>
               /\ sdResult[m].value.defined
               /\ ~sdResult[m].value.ok
               /\ sdResult[m].value.errorKind = "Misconfigured"

\* the no-request half of C3, which the code keeps: a message whose effective
\* configuration is empty never has a queue request
C3_NoPostWhenEmpty ==
    \A m \in MsgIds :
        (EffectiveConfigEmpty(m) /\ pc[m] # "cfgResolved") => posts[m] = << >>

\* the URL a message asks to download: its url field if that is non-empty,
\* otherwise the URL of the page that sent it
EffectiveUrl(msg) == IF Len(msg.url) > 0 THEN msg.url ELSE msg.tabUrl

\* u does not begin with http:// or https://
NotHttp(u) ==
    /\ ~StartsWith(u, <<"h", "t", "t", "p", ":", "/", "/">>)
    /\ ~StartsWith(u, <<"h", "t", "t", "p", "s", ":", "/", "/">>)

LastIsDownload == delivered > 0 /\ lastMsg.type = "DIRECT_DOWNLOAD"

\* C4 as stated: a DIRECT_DOWNLOAD whose effective URL does not start with
\* http:// or https:// is answered with the invalid-URL failure and never
\* reaches sendDownload when fromFloat is not true, and proceeds to the
\* submission when fromFloat is exactly true.
C4_AsStated ==
    (LastIsDownload /\ NotHttp(EffectiveUrl(lastMsg))) =>
        IF lastMsg.fromFloat = "true"
        THEN Accepted(delivered)
        ELSE /\ responses[delivered] = <<InvalidUrlResponse>>
             /\ ~Accepted(delivered)
             /\ posts[delivered] = << >>

\* C4, amended: the same for a non-empty effective URL; an empty effective
\* URL is never answered with the invalid-URL failure and never submitted.
C4_NonEmptyUrl ==
    (LastIsDownload /\ NotHttp(EffectiveUrl(lastMsg))) =>
        IF EffectiveUrl(lastMsg) = EmptyStr
        THEN /\ responses[delivered] # <<InvalidUrlResponse>>
             /\ ~Accepted(delivered)
        ELSE IF lastMsg.fromFloat = "true"
        THEN Accepted(delivered)
        ELSE /\ responses[delivered] = <<InvalidUrlResponse>>
             /\ handlerRet[delivered] = "undefined"
             /\ ~Accepted(delivered)
             /\ cfgCall[delivered] = NoCall
             /\ posts[delivered] = << >>

\* the first message was refused as invalid and the same URL, sent with
\* fromFloat true, has reached the queue endpoint
C4_Witness ==
    /\ delivered = 2
    /\ responses[1] = <<InvalidUrlResponse>>
    /\ lastMsg.type = "DIRECT_DOWNLOAD"
    /\ lastMsg.url = NotAUrl
    /\ lastMsg.fromFloat = "true"
    /\ Len(posts[2]) = 1
    /\ posts[2][1].body.url = NotAUrl

\* C5: the router takes the explicit url if non-empty, else the sender's page
\* URL; when the result is empty it answers {ok:false, error:"no-url"} within
\* the handler, without calling sendDownload, loading the configuration,
\* issuing a request or raising a notification; otherwise it does not answer
\* no-url, and what it submits is that URL.
C5_NoUrl ==
    LastIsDownload =>
        IF EffectiveUrl(lastMsg) = EmptyStr
        THEN /\ responses[delivered] = <<NoUrlResponse>>
             /\ handlerRet[delivered] = "undefined"
             /\ pc[delivered] = "done"
             /\ ~Accepted(delivered)
             /\ cfgCall[delivered] = NoCall
             /\ posts[delivered] = << >>
             /\ shown[delivered] = << >>
        ELSE /\ responses[delivered] # <<NoUrlResponse>>
             /\ Accepted(delivered) => sdArgs[delivered].url = EffectiveUrl(lastMsg)

\* a message without url from a sender without page URL was answered no-url
C5_Witness ==
    /\ LastIsDownload
    /\ lastMsg.url = EmptyStr
    /\ lastMsg.tabUrl = EmptyStr
    /\ responses[delivered] = <<NoUrlResponse>>
    /\ bundledFetches = 0

\* the queue request of message m has been issued and has not settled
InFlight(m) == posts[m] # << >> /\ postAnswer[m] = NoAnswer

C6_State ==
    \A m \in MsgIds :
        /\ Accepted(m) => handlerRet[m] = "true"
        /\ Len(responses[m]) <= 1
        /\ InFlight(m) => responses[m] = << >>
        /\ (Accepted(m) /\ responses[m] # << >>) => sdResult[m].state = "returned"

C6_Step ==
    \A m \in MsgIds :
        (Accepted(m)' /\ responses[m]' # responses[m])
            => /\ handlerRet[m] = "true"
               /\ responses[m] = << >>
               /\ ~InFlight(m)'

\* C6: for an accepted message the listener has returned true before any
\* response is sent; the response is sent only once sendDownload has settled,
\* never while the queue request is in flight, and never twice.
C6_ReplyAfterSettle == [](C6_State) /\ [][C6_Step]_vars

\* a message was answered after its queue request was rejected
C6_Witness ==
    \E m \in MsgIds :
        /\ handlerRet[m] = "true"
        /\ Len(posts[m]) = 1
        /\ postAnswer[m].kind = "http"
        /\ ~postAnswer[m].ok
        /\ responses[m] = <<OkResponse>>

IsDownload(m) == msgType[m] = "DIRECT_DOWNLOAD"

\* the responses a sender can get: {ok:true} or {ok:false, error}
ResponseShapes == {OkResponse, NoUrlResponse, InvalidUrlResponse}

C7_State ==
    \A m \in MsgIds :
        /\ Len(responses[m]) <= 1
        /\ \A i \in 1..Len(responses[m]) : responses[m][i] \in ResponseShapes
        /\ (IsDownload(m) /\ pc[m] = "done") => Len(responses[m]) = 1
        /\ (IsDownload(m) /\ pc[m] = "crashed") => cfgCall[m].state = "threw"

Overlay(defaults, srv) ==
    [server_url |-> IF srv.hasUrl /\ Len(srv.server_url) > 0
                    THEN srv.server_url ELSE defaults.server_url,
     api_prefix |-> defaults.api_prefix,
     token |-> IF srv.hasToken /\ srv.token # "" THEN srv.token ELSE defaults.token]

\* C8: a loadConfig call whose override request succeeded returns the bundled
\* defaults with server_url replaced only by a non-empty server_url of its
\* response and token only by a non-empty token of it; every other field,
\* and api_prefix always, has its bundled value.
C8_OverlayOnly ==
    \A m \in MsgIds :
        (cfgCall[m].state = "returned" /\ cfgCall[m].override = "ok")
            => cfgCall[m].result = Overlay(bundled, cfgCall[m].body)

\* C9: a loadConfig call whose override request failed (transport error,
\* non-success status, unreadable body) returns exactly the bundled defaults,
\* and loadConfig throws only when config_ext.json cannot be read.
C9_DefaultsOnFailure ==
    \A m \in MsgIds :
        /\ (cfgCall[m].state = "returned"
              /\ cfgCall[m].override \in {"neterror", "status", "malformed"})
               => cfgCall[m].result = bundled
        /\ cfgCall[m].state = "threw" => pc[m] = "crashed"

\* C10: in one context every loadConfig call returns the same configuration
\* values as every other, for any interleaving of the calls, and
\* config_ext.json and the override endpoint are each fetched at most once.
C10_BuiltOnce ==
    /\ \A m, n \in MsgIds :
           (cfgCall[m].state = "returned" /\ cfgCall[n].state = "returned")
               => cfgCall[m].result = cfgCall[n].result
    /\ bundledFetches <= 1
    /\ overrideFetches <= 1

\* the part of C10 about values alone
C10_SameValues ==
    \A m, n \in MsgIds :
        (cfgCall[m].state = "returned" /\ cfgCall[n].state = "returned")
            => cfgCall[m].result = cfgCall[n].result

\* message m has a type other than DIRECT_DOWNLOAD
NotDownload(m) == msgType[m] \notin {"none", "DIRECT_DOWNLOAD"}

C13_State ==
    \A m \in MsgIds :
        NotDownload(m) =>
            /\ responses[m] = << >>
            /\ handlerRet[m] = "undefined"
            /\ sdResult[m] = NotCalled
            /\ cfgCall[m] = NoCall
            /\ posts[m] = << >>
            /\ shown[m] = << >>
            /\ pc[m] = "done"

\* the dispatch of such a message changes nothing but the record of its arrival
C13_Step ==
    (delivered' # delivered /\ lastMsg'.type # "DIRECT_DOWNLOAD")
        => UNCHANGED <<CFG, sdArgs, sdResult, cfgCall, bundledFetches, overrideFetches,
                       posts, postAnswer, shown>>

\* C13: a message whose type is not DIRECT_DOWNLOAD has no observable effect
\* in the router: no response is sent, the listener returns undefined (no
\* asynchronous-response signal), no configuration or queue request is
\* issued and no notification is raised, at its dispatch or later.
C13_IgnoredMessage == [](C13_State) /\ [][C13_Step]_vars

\* a SET_FLOAT_BUTTON message was dispatched to the background while a
\* download request was waiting for the queue endpoint
C13_Witness ==
    \E m, n \in MsgIds :
        /\ msgType[m] = "SET_FLOAT_BUTTON"
        /\ pc[m] = "done"
        /\ pc[n] = "posting"

\* the queue request the claim describes for a configuration and an intent
ClaimedQueueRequest(cfg, url, mode) ==
    [method |-> "POST",
     endpoint |-> StripTrailingSlashes(cfg.server_url)
                    \o (IF Len(cfg.api_prefix) > 0 THEN cfg.api_prefix ELSE ApiPath)
                    \o <<"/", "q", "u", "e", "u", "e">>,
     authorization |-> <<"Bearer", cfg.token>>,
     body |-> [url |-> url, source |-> "EXT", mode |-> mode]]

\* the mode word the claim gives for an intent's modo field
ClaimedMode(modo) ==
    CASE modo = "playlist" -> "PLAYLIST"
      [] modo \in {"video", "undefined"} -> "VIDEO"

\* C14: every queue request is a POST to {serverBaseUrl}{apiPrefix}/queue of
\* the configuration loadConfig returned, with Authorization: Bearer {token},
\* and a body with the intent's URL, source "EXT" and the upper-cased intent
\* mode, which is "VIDEO" or "PLAYLIST" ("VIDEO" when the intent has no
\* mode); a message gets at most one such request.
C14_QueueRequest ==
    \A m \in MsgIds :
        /\ Len(posts[m]) <= 1
        /\ \A i \in 1..Len(posts[m]) :
              /\ posts[m][i].body.mode \in {"VIDEO", "PLAYLIST"}
              /\ posts[m][i].body.url = sdArgs[m].url
              /\ \E mode \in {"VIDEO", "PLAYLIST"} :
                    posts[m][i] =
                        ClaimedQueueRequest(cfgCall[m].result, sdArgs[m].url, mode)
              /\ (m = delivered) =>
                    posts[m][i] = ClaimedQueueRequest(cfgCall[m].result,
                                      EffectiveUrl(lastMsg), ClaimedMode(lastMsg.modo))

\* a playlist intent with no url from a tab, and an intent with no mode, were
\* each turned into a queue request
C14_Witness ==
    \E m \in MsgIds :
        /\ m = delivered
        /\ lastMsg.modo = "playlist"
        /\ lastMsg.url = EmptyStr
        /\ Len(posts[m]) = 1
        /\ posts[m][1].body.mode = "PLAYLIST"
        /\ \E n \in MsgIds : Len(posts[n]) = 1 /\ posts[n][1].body.mode = "VIDEO"

\* cfg.api_prefix || "/api": the prefix of the ping and queue endpoints
EndpointPrefix(cfg) == IF Len(cfg.api_prefix) > 0 THEN cfg.api_prefix ELSE ApiPath

\* C16: every override request goes to {server_url}{api_prefix}/ext/config
\* of the bundled defaults: its path has the bundled api_prefix, the prefix
\* the ping and queue endpoints use.
C16_OverridePrefix ==
    \A m \in MsgIds :
        cfgCall[m].asked # EmptyStr =>
            cfgCall[m].asked =
                StripTrailingSlashes(bundled.server_url) \o EndpointPrefix(bundled)
                    \o <<"/", "e", "x", "t", "/", "c", "o", "n", "f", "i", "g">>

\* a step in which the send callback of a download button runs
RoundTripCompletes ==
    \E i \in 1..Len(acts) :
        /\ acts[i].kind \in Buttons
        /\ acts[i].pc = "sent"
        /\ acts'[i].pc = "done"

\* C11: whenever the send callback of a popup download button runs, for any
\* of the three buttons and whatever was answered, the step ends with the
\* Mode "video" and the free-text URL field empty.
C11_ResetAfterRoundTrip ==
    [][RoundTripCompletes => (currentMode' = "video" /\ urlInput' = EmptyStr)]_vars

\* the download button sent the typed URL in Mode playlist and its round trip
\* has completed: the Mode is video and the field is empty
C11_Witness ==
    \E i \in 1..Len(acts) :
        /\ acts[i].kind = "download"
        /\ acts[i].pc = "done"
        /\ acts[i].entered = PaddedUrl
        /\ Len(acts[i].sent) = 1
        /\ acts[i].sent[1].modo = "playlist"
        /\ currentMode = "video"
        /\ urlInput = EmptyStr

\* !!enabled as it is stored
StoredFlag(enabled) == IF enabled THEN "true" ELSE "false"

\* C17: every SET_FLOAT_BUTTON message sent to the active tab carries a
\* value whose storage write has already completed, for any sequence of
\* toggle clicks, overlapping ones included; and once every write has
\* completed the stored value is the toggle's new value, with or without an
\* active tab to send to.
C17_PersistedBeforeBroadcast ==
    /\ \A k \in 1..Len(tabInbox) : StoredFlag(tabInbox[k].enabled) \in written
    /\ (written # {} /\ storeQueue = << >>) => store = StoredFlag(popupFloatEnabled)

\* the part of C17 about the stored value alone
C17_StoredIsNewest ==
    (written # {} /\ storeQueue = << >>) => store = StoredFlag(popupFloatEnabled)

\* the URL a download handler finds: the trimmed text of the field, else the
\* active tab's URL
FoundUrl(act) ==
    IF Trim(act.entered) # EmptyStr THEN Trim(act.entered) ELSE activeTab.url

\* handler run i of a download button has passed its send or its early return
Decided(i) == acts[i].kind \in Buttons /\ acts[i].pc \in {"sent", "done"}

\* C19 as stated: every click on a download button sends exactly one
\* DIRECT_DOWNLOAD message, with the entered URL (else the active tab's URL).
C19_AsStated ==
    \A i \in 1..Len(acts) :
        Decided(i) =>
            /\ Len(acts[i].sent) = 1
            /\ acts[i].sent[1].url = FoundUrl(acts[i])

C19_State ==
    \A i \in 1..Len(acts) :
        acts[i].kind \in Buttons =>
            /\ Len(acts[i].sent) <= 1
            /\ Decided(i) => (Len(acts[i].sent) = 1 <=> FoundUrl(acts[i]) # EmptyStr)
            /\ \A k \in 1..Len(acts[i].sent) :
                  /\ acts[i].sent[k].type = "DIRECT_DOWNLOAD"
                  /\ acts[i].sent[k].url = FoundUrl(acts[i])
                  /\ acts[i].kind = "current" => acts[i].entered = EmptyStr
                  /\ acts[i].kind = "current" => acts[i].sent[k].modo = "video"
                  /\ acts[i].kind = "playlist" => acts[i].sent[k].modo = "playlist"
            /\ (acts[i].pc = "done" /\ acts[i].sent = << >>) =>
                  tempStatusTimer # "null"

\* the download button's message carries the Mode of the moment it is sent
C19_Step ==
    \A i \in 1..Len(acts') :
        (/\ acts'[i].kind = "download"
         /\ acts'[i].sent # << >>
         /\ (i > Len(acts) \/ acts[i].sent = << >>))
            => acts'[i].sent[1].modo = currentMode

\* C19, amended: a click on a download button sends at most one
\* DIRECT_DOWNLOAD message, and exactly one when a URL is found: the trimmed
\* text of the URL field, else the active tab's URL (for the current-video
\* button always the active tab's URL).  The download button sends the Mode
\* current when the message is sent, the current-video button mode video
\* whatever the Mode, the playlist button mode playlist.  When no URL is
\* found nothing is sent and a temporary status is shown.
C19_OneIntentWhenUrl == [](C19_State) /\ [][C19_Step]_vars

\* the current-video button has sent the tab's URL with mode video while the
\* Mode is playlist, and the playlist button has sent the typed URL, trimmed
C19_Witness ==
    \E i, j \in 1..Len(acts) :
        /\ acts[i].kind = "current"
        /\ acts[i].pc = "sent"
        /\ acts[i].sent[1].modo = "video"
        /\ acts[i].sent[1].url = HttpsUrl
        /\ currentMode = "playlist"
        /\ acts[j].kind = "playlist"
        /\ acts[j].entered = PaddedUrl
        /\ Len(acts[j].sent) = 1
        /\ acts[j].sent[1].url = HttpUrl

\* url ends with path, and what precedes path does not end with a slash
BaseHasNoTrailingSlash(url, path) ==
    /\ Len(url) >= Len(path)
    /\ SubSeq(url, Len(url) - Len(path) + 1, Len(url)) = path
    /\ LET base == SubSeq(url, 1, Len(url) - Len(path))
       IN base = << >> \/ base[Len(base)] # "/"

\* the path a URL of the popup ends with, by what the URL is for
PathOf(kind) ==
    CASE kind = "override" -> ExtConfigPath
      [] kind = "ping" -> EndpointPrefix(bundled) \o PingPath
      [] kind = "viewQueue" -> ExtQueuePath
      [] kind = "openDownloads" -> ExtOpenDownloadsPath

\* C15: every URL built from the configuration (override request and queue
\* request of the background; override request, ping, view-queue link and
\* open-downloads link of the popup) is a server base without a trailing
\* slash followed by the endpoint's path, whether the base is the bundled
\* server_url or one an override put in its place.
C15_NoTrailingSlash ==
    /\ \A m \in MsgIds :
          /\ cfgCall[m].asked # EmptyStr =>
                BaseHasNoTrailingSlash(cfgCall[m].asked, ExtConfigPath)
          /\ \A k \in 1..Len(posts[m]) :
                BaseHasNoTrailingSlash(posts[m][k].endpoint,
                                       EndpointPrefix(bundled) \o QueuePath)
    /\ \A r \in popupUrls : BaseHasNoTrailingSlash(r.url, PathOf(r.kind))

\* with a bundled server_url ending in a slash and an override ending in two:
\* the background has posted to the override's server, and the popup has
\* requested the override, pinged and opened a link on the override's server
C15_Witness ==
    /\ bundled.server_url = SrvUrlSlash
    /\ Len(posts[1]) = 1
    /\ posts[1][1].endpoint = XTestUrl \o V2Path \o QueuePath
    /\ cfgCall[1].asked # EmptyStr
    /\ \E r \in popupUrls : r.kind = "override"
    /\ Requested("ping", XTestUrl \o V2Path \o PingPath) \in popupUrls
    /\ Requested("viewQueue", XTestUrl \o ExtQueuePath) \in popupUrls
    /\ CONFIG # Null /\ CONFIG.server_url = XSlashUrl
    /\ CFG # Null /\ CFG.server_url = XSlashUrl

\* a step in which the startup read of a page context ends
StartupReadEnds == pagePc = "reading" /\ pagePc' = "ready"

\* C12: a page context with a document body that started after the last
\* write of the flag ends its startup read with the overlay button present
\* and visible when the stored value is true and absent when it is false or
\* when the key was never written.
C12_StartupFollowsStore ==
    [][(StartupReadEnds /\ ~wroteSinceStart) =>
           /\ hasBody
           /\ store = "true" => (btn' # Null /\ btn'.display = "block")
           /\ store \in {"false", "absent"} => btn' = Null
           /\ pageFloatEnabled' = (store = "true")]_vars

\* the flag was written true, then false, then true, the page was loaded
\* after that and has the button; no broadcast took part
C12_Witness ==
    /\ written = {"true", "false"}
    /\ store = "true"
    /\ pagePc = "ready"
    /\ btn # Null
    /\ tabInbox = << >>
    /\ clicks = << >>

\* a step in which the content script handles a SET_FLOAT_BUTTON message
\* in a document with a body
BroadcastHandled ==
    /\ pagePc # "none"
    /\ hasBody
    /\ tabInbox # << >>
    /\ tabInbox' = Tail(tabInbox)

\* C18: in a page context with a document body, handling SET_FLOAT_BUTTON
\* {enabled} leaves the overlay button present and visible when enabled is
\* true and absent when it is false, whatever the button's state before, at
\* any point of the page's life.
C18_BroadcastApplied ==
    [][BroadcastHandled =>
           IF Head(tabInbox).enabled
           THEN btn' # Null /\ btn'.display = "block" /\ pageFloatEnabled'
           ELSE btn' = Null /\ ~pageFloatEnabled']_vars

\* the button was created by a broadcast while the startup read, which found
\* the flag false, was still pending
C18_Witness ==
    /\ pagePc = "reading"
    /\ readValue = "false"
    /\ btn # Null
    /\ btn.display = "block"
    /\ pageFloatEnabled

\* C20: every click on the overlay button sends exactly one message, a
\* DIRECT_DOWNLOAD with fromFloat true, modo "video" and the URL the script
\* tracks at the moment of the click; the router takes fromFloat as set and
\* does not answer such a message "URL invalida", whatever the URL is.
C20_OverlayIntent ==
    /\ [](\A i \in 1..Len(clicks) :
             /\ Len(clicks[i].sent) = 1
             /\ clicks[i].sent[1].type = "DIRECT_DOWNLOAD"
             /\ clicks[i].sent[1].modo = "video"
             /\ clicks[i].sent[1].fromFloat = "true"
             /\ \A tab \in PageUrls :
                   LET msg == [type |-> clicks[i].sent[1].type,
                               url |-> clicks[i].sent[1].url,
                               modo |-> clicks[i].sent[1].modo,
                               fromFloat |-> clicks[i].sent[1].fromFloat,
                               tabUrl |-> tab]
                   IN FromFloat(msg) /\ RouterVerdict(msg) = "accept")
    /\ [][Len(clicks') > Len(clicks) =>
             /\ Len(clicks') = Len(clicks) + 1
             /\ clicks'[Len(clicks')].sent[1].url = currentUrl]_vars

\* a click sent a URL that is not an http(s) URL and is no longer the page's
\* location
C20_Witness ==
    \E i \in 1..Len(clicks) :
        /\ clicks[i].sent[1].url = NotAUrl
        /\ location = HttpsUrl
        /\ currentUrl = HttpsUrl

\* the tracked URL differs from the page's location
Stale == pagePc # "none" /\ currentUrl # location

\* a navigation the script observes: a location change whose listener or
\* wrapper ran updateUrl in the same turn
ObservedNavigation == \E url \in PageUrls : LocationChanges(url, TRUE)

\* the step is a click on the overlay
Clicked == Len(clicks') = Len(clicks) + 1

\* C21: after each navigation the script observes, and after each poll, the
\* tracked URL is the page's location; the tracked URL changes to nothing
\* but the page's location of that moment; a click submits the tracked URL;
\* and a tracked URL that differs from the location is brought up to it by
\* the poll.
C21_TrackedUrlLive ==
    /\ [][/\ (ObservedNavigation \/ PollTick) => currentUrl' = location'
          /\ currentUrl' # currentUrl => currentUrl' = location'
          /\ Clicked => clicks'[Len(clicks')].sent[1].url = currentUrl]_vars
    /\ (Stale ~> ~Stale)

\* two clicks of one page submitted different URLs, the page having changed
\* its location in between, and the tracked URL is the location
C21_Witness ==
    /\ Len(clicks) = 2
    /\ clicks[1].sent[1].url = HttpsUrl
    /\ clicks[2].sent[1].url = NotAUrl
    /\ currentUrl = location

\* the queue endpoint accepted the submission of message m
Succeeded(m) == postAnswer[m].kind = "http" /\ postAnswer[m].ok

\* the step runs the callback of the i-th overlay click on an overlay
GlyphShown(i) ==
    /\ i \in 1..Len(clicks)
    /\ clicks[i].pc = "sent"
    /\ clicks'[i].pc = "glyph"

\* C22: the callback of an overlay click puts the success glyph on the
\* overlay when the click's submission succeeded and the failure glyph
\* otherwise.
C22_GlyphTellsOutcome ==
    [][\A i \in ClickIds :
         GlyphShown(i) =>
             btn'.text = IF Succeeded(i) THEN CheckGlyph ELSE CrossGlyph]_vars

\* sendDownload is running for message m
SendDownloadRunning(m) == pc[m] \in {"readLocal", "readOverride", "cfgResolved", "posting"}

\* The handling of message m has ended as it ends with the sender present:
\* sendDownload returned after one notification, with its queue request, if
\* it issued one, settled, and the reply was passed to sendResponse; or
\* config_ext.json could not be read and loadConfig threw
Completed(m) ==
    \/ /\ pc[m] = "done"
       /\ Len(shown[m]) = 1
       /\ posts[m] # << >> => postAnswer[m] # NoAnswer
       /\ responses[m] = <<OkResponse>>
    \/ /\ pc[m] = "crashed"
       /\ cfgCall[m].state = "threw"

\* C23: closing the popup changes nothing in the background, no reply
\* reaches a closed popup, and every submission in flight while the popup is
\* closed, its own or a later one, is completed: the queue request settles
\* and the notification is raised.
C23_CompletedWithoutPopup ==
    /\ [][/\ popupPc' = "closed" /\ popupPc # "closed" => UNCHANGED bgVars
          /\ popupPc = "closed" /\ popupPc' = "closed" => UNCHANGED popupVars]_vars
    /\ \A m \in MsgIds : (popupPc = "closed" /\ SendDownloadRunning(m)) ~> Completed(m)

\* the popup is closed with its submission's queue request still pending,
\* and a later submission has been posted and notified meanwhile
C23_Witness ==
    /\ popupPc = "closed"
    /\ pc[1] = "posting"
    /\ pc[2] = "done" /\ Len(posts[2]) = 1 /\ Len(shown[2]) = 1

\* the connectivity probe of the open popup has set the base status
ProbeCompleted == popupPc = "idle"

\* C24: at most one revert timeout is pending; with none pending after the
\* probe has completed, and in fact whenever none is pending, the status line
\* shows the base status; a timeout that fires puts the base status of that
\* moment on the status line; and the base status is set by the open
\* sequence only, the probe setting it once, when it completes.
C24_StatusLine ==
    /\ [](/\ timeouts <= 1
          /\ timeouts = 0 => status = baseStatus
          /\ ProbeCompleted => baseStatus \in {ConnectedStatus, DisconnectedStatus})
    /\ [][/\ timeouts' < timeouts => status' = baseStatus'
          /\ baseStatus' # baseStatus => ~ProbeCompleted /\ status' = baseStatus'
          /\ ~ProbeCompleted /\ ProbeCompleted' => status' = baseStatus']_vars

\* two temporary messages were shown, the second while the first was on
\* display; the last timeout has fired and the status line shows the base
\* status the probe has set
C24_Witness ==
    /\ ProbeCompleted
    /\ tempStatusTimer = "fired"
    /\ Len(acts) = 2
    /\ \A i \in 1..2 : acts[i].kind \in Buttons /\ acts[i].pc = "done"
    /\ status = ConnectedStatus

\* the error kind the handling of message m ended with, "none" on success
ErrorKind(m) ==
    IF ~Accepted(m) THEN (IF responses[m] = <<NoUrlResponse>> THEN "NoUrl" ELSE "InvalidUrl")
    ELSE IF posts[m] = << >> THEN "Misconfigured"
    ELSE IF AnswerPath(postAnswer[m]) = "unreachable" THEN "Unreachable"
    ELSE IF AnswerPath(postAnswer[m]) = "rejected" THEN "Rejected"
    ELSE "none"

\* C25: a download request whose handling ended with an error kind was
\* answered with a failure and raised a notification, and every request
\* passed to sendDownload raised exactly one notification.
C25_ErrorsSurfaced ==
    \A m \in MsgIds :
        pc[m] = "done" /\ msgType[m] = "DIRECT_DOWNLOAD" =>
            /\ ErrorKind(m) # "none" =>
                   /\ Len(responses[m]) = 1
                   /\ ~responses[m][1].ok
                   /\ shown[m] # << >>
            /\ Accepted(m) => Len(shown[m]) = 1

\* every request passed to sendDownload whose handling ended raised exactly
\* one notification, that of the path sendDownload took
C25_NotifiedOnce ==
    \A m \in MsgIds :
        pc[m] = "done" /\ Accepted(m) =>
            shown[m] = <<IF posts[m] = << >> THEN MisconfiguredNote
                         ELSE AnswerNote(postAnswer[m])>>

\* the step opens the popup
Opening == popupPc = "closed" /\ popupPc' # "closed"

\* C26: the Mode is video when the popup opens and until its listeners are
\* registered; it changes only in a click on the mode switch, in the reset
\* after a send and with the popup's end; and every write to storage, pending
\* or completed, puts a boolean under the floating-control key, never the
\* Mode or the configuration.
C26_ModeNotPersisted ==
    /\ [](/\ ~Listening => currentMode = "video"
          /\ store \in StoredValues
          /\ \A k \in 1..Len(storeQueue) :
                 /\ storeQueue[k].key = STORAGE_FLOAT
                 /\ storeQueue[k].value \in {"true", "false"})
    /\ [][/\ Opening => currentMode' = "video"
          /\ currentMode' # currentMode =>
                 \/ ModeSwitchClick
                 \/ \E i \in ActIds : SendCallback(i)
                 \/ PopupCloses
          /\ store' # store => store' \in {"true", "false"}]_vars

\* the Mode is playlist in a popup that has written the flag and has a
\* second write pending
C26_Witness ==
    /\ currentMode = "playlist"
    /\ store = "true"
    /\ storeQueue # << >>
    /\ Len(acts) = 2

\* the step issues a chrome.storage.local.set
WriteIssued == Len(storeQueue') = Len(storeQueue) + 1

\* the step completes the oldest pending chrome.storage.local.set
WriteCompleted == storeQueue # << >> /\ storeQueue' = Tail(storeQueue)

\* C27: a popup writes the negation of its own floatEnabled, which it sets
\* from storage when it opens and nowhere else, whatever the store holds by
\* then; and a write that completes replaces the stored value, whatever
\* another writer stored in between.
C27_LastWriterWins ==
    [][/\ WriteIssued =>
              storeQueue'[Len(storeQueue')].value = StoredFlag(~popupFloatEnabled)
       /\ popupFloatEnabled' # popupFloatEnabled =>
              PopupFloatRead \/ ToggleClick \/ PopupCloses
       /\ WriteCompleted => store' = Head(storeQueue).value
       /\ \A v \in {"true", "false"} : FlagWritten(v) => store' = v]_vars

\* A popup that read the flag as off has toggled after another writer stored
\* true: its own write of true is pending over a store that holds true, and
\* one of the two toggles is lost
C27_Witness ==
    /\ Len(acts) = 1
    /\ acts[1].kind = "toggle"
    /\ acts[1].pc = "writing"
    /\ Len(storeQueue) = 1
    /\ storeQueue[1].value = "true"
    /\ store = "true"

\* C28: when the open sequence has finished in a popup that could not read
\* config_ext.json (CONFIG is still null), the base status is the
\* configuration-error message.
C28_ConfigErrorKept ==
    (popupPc = "idle" /\ CONFIG = Null) => baseStatus = ConfigErrorStatus

\* the step handles a SET_FLOAT_BUTTON message that switches the overlay off
DisableHandled ==
    /\ pagePc # "none"
    /\ tabInbox # << >>
    /\ ~Head(tabInbox).enabled
    /\ tabInbox' = Tail(tabInbox)

\* C29: the document holds at most one overlay button, the one btn refers
\* to, and none once a disable message has been handled.
C29_AtMostOneOverlay ==
    /\ [](/\ attached <= 1
          /\ attached = 1 <=> btn # Null)
    /\ [][DisableHandled => attached' = 0]_vars

\* an enable message has created the button before the startup read called
\* back; the read has found true and another enable message is on its way,
\* so createButton is about to be called twice more, and there is one button
C29_Witness ==
    /\ pagePc = "reading"
    /\ readValue = "true"
    /\ tabInbox = <<Broadcast(TRUE)>>
    /\ btn # Null
    /\ attached = 1

\* the popup's toggle handlers have run to their end, no storage write is
\* pending and every broadcast has been delivered
TogglesSettled ==
    /\ storeQueue = << >>
    /\ tabInbox = << >>
    /\ \A i \in 1..Len(acts) : acts[i].pc = "done"

\* C30: once the page's startup read has called back and the popup's toggles
\* have settled, the overlay is present exactly when the stored flag is true.
C30_OverlayFollowsStore ==
    (pagePc = "ready" /\ TogglesSettled) => (btn # Null <=> store = "true")

\* C31: no response callback and no revert timer of an overlay click runs
\* into a btn that is null.
C31_NoAbsentControl ==
    \A i \in 1..Len(clicks) : clicks[i].pc # "threw"

\* C32: no download button of the popup has two messages awaiting their send
\* callback.
C32_OneInFlightPerButton ==
    \A b \in Buttons :
        Cardinality({i \in 1..Len(acts) : acts[i].kind = b /\ acts[i].pc = "sent"}) <= 1

\* the router answered message m with NoUrl or InvalidUrl
Refused(m) == responses[m] \in {<<NoUrlResponse>>, <<InvalidUrlResponse>>}

\* C33: a message causes at most one queue request, and none unless it
\* passed the router's URL checks; the requests issued are no more than the
\* messages accepted; and a request is issued nowhere but where sendDownload
\* resumes with the configuration, once per call.
C33_ConsumedOnce ==
    /\ [](/\ \A m \in MsgIds :
                /\ Len(posts[m]) <= 1
                /\ posts[m] # << >> => Accepted(m)
                /\ Refused(m) => posts[m] = << >>
                /\ msgType[m] # "DIRECT_DOWNLOAD" => posts[m] = << >>
          /\ Cardinality({m \in MsgIds : posts[m] # << >>})
                 <= Cardinality({m \in MsgIds : Accepted(m)}))
    /\ [][\A m \in MsgIds :
              posts'[m] # posts[m] => pc[m] = "cfgResolved" /\ posts[m] = << >>]_vars

\* two accepted messages have their queue requests pending at once, one each
C33_Witness ==
    /\ pc[1] = "posting" /\ Len(posts[1]) = 1
    /\ pc[2] = "posting" /\ Len(posts[2]) = 1

====
